---- MODULE Spec2Model ----
(***************************************************************************)
(* Model of the semantic-kernel python core:                               *)
(*   - Kernel.invoke / Kernel.invoke_stream, the function invoking/invoked *)
(*     event pipeline (semantic_kernel/kernel.py);                         *)
(*   - OpenAIChatCompletionBase.complete_chat / complete_chat_stream, the  *)
(*     auto-invoke tool call loop (open_ai_chat_completion_base.py);       *)
(*   - TemplateTokenizer.tokenize (template_engine/template_tokenizer.py); *)
(*   - the argument parsing of a tool call, NamedArgBlock, the rendering   *)
(*     of KernelPromptTemplate, the functions of Kernel and KernelPlugin,  *)
(*     and TextContent.__add__ / ToolCall.__add__.                         *)
(* Each part has its own specification (SpecInvoke, SpecChat, SpecTok,     *)
(* SpecToolArgs, SpecNamedArg, SpecRender, SpecPlugins, SpecContent); the  *)
(* variables of the other parts stay at their initial values.              *)
(***************************************************************************)
EXTENDS Integers, Sequences, FiniteSets, TLC

\* ---- bounds of the model -------------------------------------------------
\* largest number of repeats the post-invoke handlers request in one invoke
MaxRepeat == 3
\* largest number of messages the streamed function yields
MaxYield == 2
\* function_call_behavior.max_auto_invoke_attempts of the settings
MaxAttempts == 2
\* largest number of chunks of one streamed model response
MaxChunks == 2
\* largest number of parts (delimiters and single characters) of a template
MaxParts == 3
\* largest number of tool calls of the result handed to _process_tool_calls
MaxToolCalls == 3
\* largest number of parts of the content handed to NamedArgBlock
MaxArgParts == 4
\* largest number of blocks of a rendered template
MaxBlocks == 2
\* largest number of function objects handed to the kernel and its plugins
MaxFunctions == 4

\* ---- Kernel.invoke / Kernel.invoke_stream --------------------------------
VARIABLES
    entry,                   \* "invoke" or "invoke_stream": the method called
    pc,                      \* position of the (possibly recursive) call
    arguments,               \* the local `arguments` (which table it refers to)
    function_invoking_args,  \* FunctionInvokingEventArgs of the last pre-invoke event
    function_result,         \* the local `function_result`
    exception,               \* the local `exception` (TRUE: an exception object)
    function_invoked_args,   \* FunctionInvokedEventArgs of the last post-invoke event
    cleared,                 \* a handler reset args.exception in the last post-invoke event
    ret,                     \* what the outermost call gave its caller
    calls,                   \* number of executions of function.invoke / invoke_stream
    call_args,               \* the argument table handed to the last execution
    pre_runs,                \* number of on_function_invoking events
    post_runs,               \* number of on_function_invoked events
    repeats,                 \* number of recursive self.invoke calls (line 277)
    repeat_requests,         \* number of post-invoke events that requested a repeat
    disturbed,               \* some event requested cancellation, or some call failed
    yielded,                 \* number of stream messages yielded to the caller
    return_function_results, \* the parameter of invoke_stream
    stream_function_result,  \* invoke_stream's local function_result (line 175)
    output_function_result   \* the value of the FunctionResult of line 197

aggVars == <<return_function_results, stream_function_result, output_function_result>>

invokeVars == <<entry, pc, arguments, function_invoking_args, function_result,
                exception, function_invoked_args, cleared, ret, calls, call_args,
                pre_runs, post_runs, repeats, repeat_requests, disturbed, yielded,
                aggVars>>

\* ---- complete_chat / complete_chat_stream ---------------------------------
VARIABLES
    api,            \* "complete_chat" or "complete_chat_stream"
    auto_invoke,    \* function_call_behavior.auto_invoke_kernel_functions
    cpc,            \* position of the coroutine: "send", "chunks", "gather",
                    \* "returned", "raised"
    requests,       \* number of model requests sent so far (the round number)
    completions,    \* tool call count of each completion of the current response
    ci,             \* index of the completion whose tool calls are being processed
    chat_history,   \* the ChatHistory: a sequence of messages
    tasks,          \* the tasks of the current asyncio.gather, in request order
    gather_exc,     \* the first exception raised by a task of the current gather
    chat_ret,       \* what the call gave its caller
    finish_reason,  \* complete_chat_stream's local finish_reason
    full_tool_calls,\* tool call count of full_content (0: tool_calls is None)
    chunks_seen     \* number of chunks read from the current response

chatVars == <<api, auto_invoke, cpc, requests, completions, ci, chat_history,
              tasks, gather_exc, chat_ret, finish_reason, full_tool_calls,
              chunks_seen>>

\* ---- TemplateTokenizer.tokenize ---------------------------------------------
VARIABLES
    text,      \* the template, a sequence of characters
    tpc,       \* "input": tokenize not yet called; "done": it returned or raised
    result     \* [error, blocks]: the exception raised ("none": it returned)
               \* and the blocks returned

tokVars == <<text, tpc, result>>

\* ---- _process_tool_calls: the argument tables ------------------------------
VARIABLES
    apc,               \* "input": _process_tool_calls not yet called; "gather"
    tool_call_count,   \* len(result.tool_calls)
    tables,            \* the KernelArguments objects: object 0 is `arguments`
    args_cloned,       \* the object each _process_tool_call got as args_cloned
    parsed_args,       \* what func.parse_arguments() gave in each call
    args_done,         \* number of calls that have run up to their kernel.invoke
    caller_arguments   \* the content of `arguments` when the caller passed it

argVars == <<apc, tool_call_count, tables, args_cloned, parsed_args, args_done,
             caller_arguments>>

\* ---- NamedArgBlock(content=...) ----------------------------------------------
VARIABLES
    arg_content,   \* the content handed to NamedArgBlock
    npc,           \* "input": not yet constructed; "done": constructed or raised
    named_arg      \* the exception raised ("none": the block was constructed)

namedVars == <<arg_content, npc, named_arg>>

\* ---- KernelPromptTemplate.render ---------------------------------------------
VARIABLES
    allow_dangerously_set_content,  \* the field of the prompt template
    input_variables,   \* prompt_template_config.input_variables, by name
    render_arguments,  \* the KernelArguments handed to render
    template_blocks,   \* self._blocks
    rendered_blocks,   \* the local rendered_blocks of render_blocks
    prompt,            \* what render returned
    rpc                \* "input": render not yet called; "done": it returned

renderVars == <<allow_dangerously_set_content, input_variables, render_arguments,
                template_blocks, rendered_blocks, prompt, rpc>>

\* ---- Kernel.add_functions / KernelPlugin ---------------------------------------
VARIABLES
    plugins,         \* kernel.plugins: for each plugin name whether it is there
                     \* and, by function name, the function object registered
                     \* (0: none)
    functions_made,  \* number of function objects handed in so far
    plugin_error,    \* the exception of the last operation ("none": it returned)
    ppc              \* "ready": the kernel is there; "idle": this part is not used

pluginVars == <<plugins, functions_made, plugin_error, ppc>>

\* ---- TextContent.__add__ / ToolCall.__add__ -----------------------------------
VARIABLES
    addends,     \* the fragments a, b, c of one choice, in arrival order
    left_sum,    \* (a + b) + c
    right_sum,   \* a + (b + c)
    mpc          \* "input": nothing merged yet; "done": both sums are made

contentVars == <<addends, left_sum, right_sum, mpc>>

libVars == <<namedVars, renderVars, pluginVars, contentVars>>

vars == <<invokeVars, chatVars, tokVars, argVars, libVars>>

\* Argument tables: the caller's, one put in place by a pre-invoke handler,
\* one put in place by a post-invoke handler.
ArgTables == {"caller", "by_invoking_handler", "by_invoked_handler"}

\* What the registered function_invoking handlers do to the event args, taken
\* together (all FALSE: no handler registered, or handlers that change nothing).
InvokingHandlers == [cancel: BOOLEAN, skip: BOOLEAN, update_arguments: BOOLEAN]

\* What the registered function_invoked handlers do to the event args.
InvokedHandlers == [cancel: BOOLEAN, repeat: BOOLEAN, update_arguments: BOOLEAN,
                    clear_exception: BOOLEAN, replace_result: BOOLEAN]

\* Kernel.on_function_invoking: build the args, run every handler on them.
on_function_invoking(args, h) ==
    [arguments |-> IF h.update_arguments THEN "by_invoking_handler" ELSE args,
     updated_arguments |-> h.update_arguments,
     is_cancel_requested |-> h.cancel,
     is_skip_requested |-> h.skip]

\* FunctionResult values: "None" is python's None, "R" the function's result,
\* "Rexc" a result whose metadata holds an "exception", "H" a result put in
\* place by a handler, "Empty" the FunctionResult(value=None) of lines 265/282.
MetadataException(fr) == fr = "Rexc"

\* kernel.py:342   exception or function_result.metadata.get("exception", None)
\*                 if function_result else None
\* python parses this as (A or B) if C else None.
InvokedException(fr, exc) ==
    IF fr # "None" THEN (exc \/ MetadataException(fr)) ELSE FALSE

\* Kernel.on_function_invoked: build the args, run every handler on them.
on_function_invoked(args, fr, exc, h) ==
    [arguments |-> IF h.update_arguments THEN "by_invoked_handler" ELSE args,
     updated_arguments |-> h.update_arguments,
     function_result |-> IF h.replace_result THEN "H" ELSE fr,
     exception |-> IF h.clear_exception THEN FALSE ELSE InvokedException(fr, exc),
     is_cancel_requested |-> h.cancel,
     is_repeat_requested |-> h.repeat]

\* mutant: the cancellation request of the pre-invoke event is not looked at
InvokeAfterInvoking_NoCancel(ia) == "call"

\* kernel.py:231-244: what Kernel.invoke does with the pre-invoke event args.
InvokeAfterInvoking(ia) ==
    IF ia.is_cancel_requested THEN "return_none" ELSE "call"

\* kernel.py:159-177: what Kernel.invoke_stream does with the pre-invoke event args.
StreamAfterInvoking(ia) ==
    IF ia.is_cancel_requested THEN "return"
    ELSE IF ia.is_skip_requested THEN "return"
    ELSE "call"

\* mutant: a repeat request is not acted on
InvokeAfterInvoked_NoRepeat(da) ==
    IF da.exception THEN "raise" ELSE "return"

\* mutant: a repeat request is looked at before a cancellation request
InvokeAfterInvoked_RepeatFirst(da) ==
    IF da.exception THEN "raise"
    ELSE IF da.is_repeat_requested THEN "repeat"
    ELSE "return"

\* kernel.py:254-283: what Kernel.invoke does with the post-invoke event args.
InvokeAfterInvoked(da) ==
    IF da.exception THEN "raise"
    ELSE IF da.is_cancel_requested THEN "return"
    ELSE IF da.is_repeat_requested THEN "repeat"
    ELSE "return"

\* mutant: the repeated call gets the table the call before it got
RepeatArguments_Stale(da, args) == args

\* kernel.py:267-277: the argument table handed to the recursive self.invoke
RepeatArguments(da, args) ==
    IF da.updated_arguments THEN da.arguments ELSE args

\* kernel.py:262-266, 279-283
ReturnedResult(da) ==
    IF da.function_result # "None" THEN da.function_result ELSE "Empty"

\* The messages function.invoke_stream yields: lists of streaming contents,
\* given by the choice_index of each.
StreamMessages == {<<0>>, <<1>>, <<0, 1>>, <<1, 0>>}

\* The j-th content of the m-th message, with choice_index c; `parts` names
\* the fragments an accumulated content is made of, in the order of the merge.
StreamingContent(m, j, c) == [choice_index |-> c, parts |-> <<(<<m, j>>)>>]

\* StreamingContentMixin.__add__
StreamingContent_add(left, right) ==
    [choice_index |-> left.choice_index, parts |-> left.parts \o right.parts]

\* kernel.py:193-196
AddChoice(output, choice) ==
    IF Len(output) <= choice.choice_index
    THEN Append(output, choice)
    ELSE [output EXCEPT ![choice.choice_index + 1] = StreamingContent_add(@, choice)]

\* kernel.py:190, for choice in result (the m-th message), from its j-th content
RECURSIVE AddChoices(_, _, _, _)
AddChoices(output, message, m, j) ==
    IF j > Len(message) THEN output
    ELSE AddChoices(AddChoice(output, StreamingContent(m, j, message[j])),
                    message, m, j + 1)

\* kernel.py:188-196, for result in function_result, from the m-th message
RECURSIVE AggregateResults(_, _, _)
AggregateResults(output, results, m) ==
    IF m > Len(results) THEN output
    ELSE AggregateResults(AddChoices(output, results[m], m, 1), results, m + 1)

NoInvokingArgs == [arguments |-> "caller", updated_arguments |-> FALSE,
                   is_cancel_requested |-> FALSE, is_skip_requested |-> FALSE]
NoInvokedArgs == [arguments |-> "caller", updated_arguments |-> FALSE,
                  function_result |-> "None", exception |-> FALSE,
                  is_cancel_requested |-> FALSE, is_repeat_requested |-> FALSE]

InitInvoke ==
    /\ entry \in {"invoke", "invoke_stream"}
    /\ pc = "start"
    /\ arguments = "caller"
    /\ function_invoking_args = NoInvokingArgs
    /\ function_result = "None"
    /\ exception = FALSE
    /\ function_invoked_args = NoInvokedArgs
    /\ cleared = FALSE
    /\ ret = "pending"
    /\ calls = 0
    /\ call_args = "caller"
    /\ pre_runs = 0
    /\ post_runs = 0
    /\ repeats = 0
    /\ repeat_requests = 0
    /\ disturbed = FALSE
    /\ yielded = 0
    /\ return_function_results \in (IF entry = "invoke_stream" THEN BOOLEAN ELSE {FALSE})
    /\ stream_function_result = <<>>
    /\ output_function_result = <<>>

InitInvokeIdle ==
    /\ entry = "invoke"
    /\ pc = "idle"
    /\ arguments = "caller"
    /\ function_invoking_args = NoInvokingArgs
    /\ function_result = "None"
    /\ exception = FALSE
    /\ function_invoked_args = NoInvokedArgs
    /\ cleared = FALSE
    /\ ret = "pending"
    /\ calls = 0
    /\ call_args = "caller"
    /\ pre_runs = 0
    /\ post_runs = 0
    /\ repeats = 0
    /\ repeat_requests = 0
    /\ disturbed = FALSE
    /\ yielded = 0
    /\ return_function_results = FALSE
    /\ stream_function_result = <<>>
    /\ output_function_result = <<>>

\* Kernel.invoke, lines 230-242: the pre-invoke event up to the await.
InvokeStart ==
    /\ entry = "invoke"
    /\ pc = "start"
    /\ \E h \in InvokingHandlers :
         LET ia == on_function_invoking(arguments, h) IN
         /\ function_invoking_args' = ia
         /\ pre_runs' = pre_runs + 1
         /\ IF InvokeAfterInvoking(ia) = "return_none"
            THEN /\ pc' = "returned"
                 /\ ret' = "None"
                 /\ UNCHANGED <<arguments, function_result, exception>>
            ELSE /\ pc' = "call"
                 /\ arguments' = IF ia.updated_arguments THEN ia.arguments ELSE arguments
                 /\ function_result' = "None"
                 /\ exception' = FALSE
                 /\ UNCHANGED ret
         /\ disturbed' = (disturbed \/ ia.is_cancel_requested)
    /\ UNCHANGED <<entry, function_invoked_args, cleared, calls, call_args,
                   post_runs, repeats, repeat_requests, yielded>>
    /\ UNCHANGED aggVars
    /\ UNCHANGED <<chatVars, tokVars, argVars, libVars>>

\* Kernel.invoke, lines 243-250: the awaited function.invoke returns a result
\* (with or without an exception in its metadata) or raises.
FunctionInvoke ==
    /\ entry = "invoke"
    /\ pc = "call"
    /\ \E outcome \in {"R", "Rexc", "raises"} :
         /\ function_result' = IF outcome = "raises" THEN "None" ELSE outcome
         /\ exception' = (outcome = "raises")
         /\ disturbed' = (disturbed \/ outcome # "R")
    /\ calls' = calls + 1
    /\ call_args' = arguments
    /\ pc' = "post"
    /\ UNCHANGED <<entry, arguments, function_invoking_args, function_invoked_args,
                   cleared, ret, pre_runs, post_runs, repeats, repeat_requests,
                   yielded>>
    /\ UNCHANGED aggVars
    /\ UNCHANGED <<chatVars, tokVars, argVars, libVars>>

\* Kernel.invoke, lines 253-283: the post-invoke event and what follows it.
InvokeFinish ==
    /\ entry = "invoke"
    /\ pc = "post"
    /\ \E h \in InvokedHandlers :
         LET da == on_function_invoked(arguments, function_result, exception, h)
             next == InvokeAfterInvoked(da)
         IN
         /\ h.repeat => repeat_requests < MaxRepeat
         /\ repeat_requests' = IF h.repeat THEN repeat_requests + 1 ELSE repeat_requests
         /\ disturbed' = (disturbed \/ h.cancel)
         /\ function_invoked_args' = da
         /\ cleared' = h.clear_exception
         /\ post_runs' = post_runs + 1
         /\ CASE next = "raise" ->
                   /\ pc' = "raised"
                   /\ ret' = "KernelInvokeException"
                   /\ UNCHANGED <<arguments, repeats>>
              [] next = "return" ->
                   /\ pc' = "returned"
                   /\ ret' = ReturnedResult(da)
                   /\ arguments' = IF da.is_cancel_requested \/ ~da.updated_arguments
                                   THEN arguments ELSE da.arguments
                   /\ UNCHANGED repeats
              [] next = "repeat" ->
                   /\ pc' = "start"
                   /\ arguments' = RepeatArguments(da, arguments)
                   /\ repeats' = repeats + 1
                   /\ UNCHANGED ret
    /\ UNCHANGED <<entry, function_invoking_args, function_result, exception,
                   calls, call_args, pre_runs, yielded>>
    /\ UNCHANGED aggVars
    /\ UNCHANGED <<chatVars, tokVars, argVars, libVars>>

\* Kernel.invoke_stream, lines 158-175: the pre-invoke event up to the first
\* pull of function.invoke_stream.
StreamStart ==
    /\ entry = "invoke_stream"
    /\ pc = "start"
    /\ \E h \in InvokingHandlers :
         LET ia == on_function_invoking(arguments, h) IN
         /\ function_invoking_args' = ia
         /\ pre_runs' = pre_runs + 1
         /\ IF StreamAfterInvoking(ia) = "return"
            THEN /\ pc' = "returned"
                 /\ ret' = "None"
                 /\ UNCHANGED <<arguments, calls, call_args>>
            ELSE /\ pc' = "stream"
                 /\ arguments' = IF ia.updated_arguments THEN ia.arguments ELSE arguments
                 /\ calls' = calls + 1
                 /\ call_args' = arguments'
                 /\ UNCHANGED ret
         /\ disturbed' = (disturbed \/ ia.is_cancel_requested)
    /\ UNCHANGED <<entry, function_result, exception, function_invoked_args,
                   cleared, post_runs, repeats, repeat_requests, yielded>>
    /\ UNCHANGED aggVars
    /\ UNCHANGED <<chatVars, tokVars, argVars, libVars>>

\* Kernel.invoke_stream, lines 177-185: one message of the streamed function:
\* a FunctionResult carrying an exception ends the stream with
\* KernelInvokeException, any other message is yielded.
StreamMessage ==
    /\ entry = "invoke_stream"
    /\ pc = "stream"
    /\ \E failed \in BOOLEAN :
         IF failed
         THEN /\ pc' = "raised"
              /\ ret' = "KernelInvokeException"
              /\ disturbed' = TRUE
              /\ UNCHANGED <<yielded, stream_function_result>>
         ELSE /\ yielded < MaxYield
              /\ yielded' = yielded + 1
              /\ \E stream_message \in StreamMessages :
                   stream_function_result' =
                       Append(stream_function_result, stream_message)
              /\ UNCHANGED <<pc, ret, disturbed>>
    /\ UNCHANGED <<entry, arguments, function_invoking_args, function_result,
                   exception, function_invoked_args, cleared, calls, call_args,
                   pre_runs, post_runs, repeats, repeat_requests>>
    /\ UNCHANGED <<return_function_results, output_function_result>>
    /\ UNCHANGED <<chatVars, tokVars, argVars, libVars>>

\* Kernel.invoke_stream, lines 187-197: the streamed function is exhausted;
\* the aggregated FunctionResult is yielded when it was asked for.
StreamEnd ==
    /\ entry = "invoke_stream"
    /\ pc = "stream"
    /\ pc' = "returned"
    /\ ret' = "stream_end"
    /\ output_function_result' =
           IF return_function_results
           THEN AggregateResults(<<>>, stream_function_result, 1)
           ELSE output_function_result
    /\ UNCHANGED <<return_function_results, stream_function_result>>
    /\ UNCHANGED <<entry, arguments, function_invoking_args, function_result,
                   exception, function_invoked_args, cleared, calls, call_args,
                   pre_runs, post_runs, repeats, repeat_requests, disturbed, yielded>>
    /\ UNCHANGED <<chatVars, tokVars, argVars, libVars>>

\* ---- complete_chat / complete_chat_stream ---------------------------------

\* The model responses considered: the number of tool calls of each completion
\* (choice) of a response; 0 is a completion without tool calls.
CompletionShapes == {<<0>>, <<1>>, <<2>>, <<3>>, <<1, 1>>, <<2, 0>>}

\* The chunks of a streamed response: whether it has choices, the number of
\* tool calls of its first choice (0: none) and the finish reason of that choice.
Chunks == [has_choices: BOOLEAN, tool_calls: {0, 1, 2},
           finish_reason: {"None", "stop", "tool_calls", "length"}]

\* What one tool call does when its task runs: its arguments do not parse, or
\* kernel.invoke is awaited and completes without suspending ("result",
\* "raise", "none") or suspends ("suspend"). Every ToolCall of a response is
\* built with a FunctionCall (lines 298-305), so the return of line 366 for a
\* ToolCall without function is not among the steps.
FirstSteps == {"malformed", "result", "raise", "none", "suspend"}
\* What a suspended kernel.invoke gives when it is resumed.
Resumptions == {"result", "raise", "none"}

AssistantMessage(r, c) ==
    [role |-> "assistant", round |-> r, completion |-> c, call |-> 0,
     content |-> "tool_calls"]
ToolMessage(r, c, k, body) ==
    [role |-> "tool", round |-> r, completion |-> c, call |-> k, content |-> body]

\* ChatHistory.add_message
add_message(history, message) == Append(history, message)

\* semantic_kernel.utils.chat.store_results
store_results(history, results) == history \o results

\* OpenAIStreamingChatMessageContent.__add__, the tool_calls of the sum: the
\* calls of the left operand merged index by index with those of the right
\* one, or the right operand's calls when the left has none.
AddToolCalls(full, chunk) == IF full = 0 THEN chunk ELSE full

\* mutant: the completions are returned only when none of them has tool calls
ShouldReturnCompletionsResponse_AllWithout(cs) ==
    \A c \in 1..Len(cs) : cs[c] = 0

\* open_ai_chat_completion_base.py:397-404
ShouldReturnCompletionsResponse(cs) ==
    \E c \in 1..Len(cs) : cs[c] = 0

\* mutant: the loop runs one iteration too many
LoopContinues_OffByOne(n) == n <= MaxAttempts

\* open_ai_chat_completion_base.py:93 and :132, `for _ in range(max_attempts)`:
\* after n iterations the loop runs another one.
LoopContinues(n) == n < MaxAttempts

\* open_ai_chat_completion_base.py:353-355: one coroutine per tool call, in the
\* order of result.tool_calls, wrapped in tasks by asyncio.gather.
NewTasks(n) ==
    [k \in 1..n |-> [state |-> "created", invoked |-> FALSE, appended |-> FALSE]]

\* mutant: the wait ends with the first task that is done
GatherReturns_FirstCompleted(ts) == \E k \in DOMAIN ts : ts[k].state = "done"

\* asyncio.gather (return_exceptions=False) gives its result when every task
\* is done.
GatherReturns(ts) == \A k \in DOMAIN ts : ts[k].state = "done"

\* The event loop runs the first step of every task of a gather, in creation
\* order, before it resumes any coroutine that suspended meanwhile.
AllStarted(ts) == \A k \in DOMAIN ts : ts[k].state # "created"

\* _process_tool_call with one of its steps altered, for the definitions
\* that follow: "malformed_raises" lets FunctionCallInvalidArgumentsException
\* out of the task, "result_replaces_history" lets the tool message of a
\* result take the place of the history, "result_not_appended" leaves the
\* result of the function out of the history, "result_prepended" puts the
\* tool message of a result at the front of the history.
ProcessToolCall_Altered(variant, step, r, c, k, task, history) ==
    CASE step = "no_function" ->
           [task |-> [task EXCEPT !.state = "done"],
            history |-> history, exc |-> "none"]
      [] step = "malformed" ->
           IF variant = "malformed_raises"
           THEN [task |-> [task EXCEPT !.state = "failed"],
                 history |-> history,
                 exc |-> "FunctionCallInvalidArgumentsException"]
           ELSE [task |-> [task EXCEPT !.state = "done", !.appended = TRUE],
                 history |-> add_message(history, ToolMessage(r, c, k, "malformed")),
                 exc |-> "none"]
      [] step = "suspend" ->
           [task |-> [task EXCEPT !.state = "invoking", !.invoked = TRUE],
            history |-> history, exc |-> "none"]
      [] step = "result" ->
           [task |-> [task EXCEPT !.state = "done", !.invoked = TRUE,
                                  !.appended = TRUE],
            history |-> IF variant = "result_replaces_history"
                        THEN <<ToolMessage(r, c, k, "result")>>
                        ELSE IF variant = "result_not_appended" THEN history
                        ELSE IF variant = "result_prepended"
                        THEN <<ToolMessage(r, c, k, "result")>> \o history
                        ELSE add_message(history, ToolMessage(r, c, k, "result")),
            exc |-> "none"]
      [] step = "raise" ->
           [task |-> [task EXCEPT !.state = "failed", !.invoked = TRUE],
            history |-> history, exc |-> "ServiceInvalidResponseError"]
      [] step = "none" ->
           [task |-> [task EXCEPT !.state = "failed", !.invoked = TRUE],
            history |-> history, exc |-> "AttributeError"]

\* mutant: a malformed argument payload makes the task fail
ProcessToolCall_MalformedRaises(step, r, c, k, task, history) ==
    ProcessToolCall_Altered("malformed_raises", step, r, c, k, task, history)

\* mutant: the tool message of a result replaces the history
ProcessToolCall_ReplacesHistory(step, r, c, k, task, history) ==
    ProcessToolCall_Altered("result_replaces_history", step, r, c, k, task, history)

\* mutant: the result of the function is not appended to the history
ProcessToolCall_ResultNotAppended(step, r, c, k, task, history) ==
    ProcessToolCall_Altered("result_not_appended", step, r, c, k, task, history)

\* mutant: the tool message of a result is put at the front of the history
ProcessToolCall_ResultPrepended(step, r, c, k, task, history) ==
    ProcessToolCall_Altered("result_prepended", step, r, c, k, task, history)

\* open_ai_chat_completion_base.py:357-395, _process_tool_call from its start
\* (step = a member of FirstSteps) or from the resumption of kernel.invoke
\* (step = a member of Resumptions): the task, the history and the exception
\* it raises.
ProcessToolCall(step, r, c, k, task, history) ==
    CASE step = "no_function" ->
           [task |-> [task EXCEPT !.state = "done"],
            history |-> history, exc |-> "none"]
      [] step = "malformed" ->
           [task |-> [task EXCEPT !.state = "done", !.appended = TRUE],
            history |-> add_message(history, ToolMessage(r, c, k, "malformed")),
            exc |-> "none"]
      [] step = "suspend" ->
           [task |-> [task EXCEPT !.state = "invoking", !.invoked = TRUE],
            history |-> history, exc |-> "none"]
      [] step = "result" ->
           [task |-> [task EXCEPT !.state = "done", !.invoked = TRUE,
                                  !.appended = TRUE],
            history |-> add_message(history, ToolMessage(r, c, k, "result")),
            exc |-> "none"]
      [] step = "raise" ->
           [task |-> [task EXCEPT !.state = "failed", !.invoked = TRUE],
            history |-> history, exc |-> "ServiceInvalidResponseError"]
      [] step = "none" ->
           \* kernel.invoke returned None: func_result.metadata (line 393)
           [task |-> [task EXCEPT !.state = "failed", !.invoked = TRUE],
            history |-> history, exc |-> "AttributeError"]

InitChat ==
    /\ api \in {"complete_chat", "complete_chat_stream"}
    /\ auto_invoke \in BOOLEAN
    /\ cpc = "send"
    /\ requests = 0
    /\ completions = <<>>
    /\ ci = 0
    /\ chat_history = <<>>
    /\ tasks = <<>>
    /\ gather_exc = "none"
    /\ chat_ret = "pending"
    /\ finish_reason = "None"
    /\ full_tool_calls = 0
    /\ chunks_seen = 0

InitChatIdle ==
    /\ api = "complete_chat"
    /\ auto_invoke = TRUE
    /\ cpc = "idle"
    /\ requests = 0
    /\ completions = <<>>
    /\ ci = 0
    /\ chat_history = <<>>
    /\ tasks = <<>>
    /\ gather_exc = "none"
    /\ chat_ret = "pending"
    /\ finish_reason = "None"
    /\ full_tool_calls = 0
    /\ chunks_seen = 0

\* complete_chat, lines 86-99: one request and its response, up to the return
\* or to the first asyncio.gather of _process_chat_response_with_tool_call.
SendChatRequest ==
    /\ api = "complete_chat"
    /\ cpc = "send"
    /\ requests' = requests + 1
    /\ \E cs \in CompletionShapes :
         /\ completions' = cs
         /\ IF ~auto_invoke
            THEN \* lines 87-90
                 /\ cpc' = "returned"
                 /\ chat_ret' = "completions"
                 /\ UNCHANGED <<ci, chat_history, tasks>>
            ELSE IF ShouldReturnCompletionsResponse(cs)
            THEN \* lines 95-96
                 /\ cpc' = "returned"
                 /\ chat_ret' = "completions"
                 /\ UNCHANGED <<ci, chat_history, tasks>>
            ELSE \* lines 188-191, first completion
                 /\ cpc' = "gather"
                 /\ ci' = 1
                 /\ chat_history' =
                        store_results(chat_history, <<AssistantMessage(requests', 1)>>)
                 /\ tasks' = NewTasks(cs[1])
                 /\ UNCHANGED chat_ret
    /\ UNCHANGED <<api, auto_invoke, gather_exc, finish_reason, full_tool_calls,
                   chunks_seen>>
    /\ UNCHANGED <<invokeVars, tokVars, argVars, libVars>>

\* The first step of the k-th task of the gather: _process_tool_call runs
\* until it returns, raises or suspends inside kernel.invoke.
StartTask(k) ==
    /\ cpc = "gather"
    /\ k \in DOMAIN tasks
    /\ tasks[k].state = "created"
    /\ \A j \in 1..(k - 1) : tasks[j].state # "created"
    /\ \E step \in FirstSteps :
         LET out == ProcessToolCall(step, requests, ci, k, tasks[k], chat_history) IN
         /\ tasks' = [tasks EXCEPT ![k] = out.task]
         /\ chat_history' = out.history
         /\ gather_exc' = IF gather_exc = "none" THEN out.exc ELSE gather_exc
    /\ UNCHANGED <<api, auto_invoke, cpc, requests, completions, ci, chat_ret,
                   finish_reason, full_tool_calls, chunks_seen>>
    /\ UNCHANGED <<invokeVars, tokVars, argVars, libVars>>

\* A suspended kernel.invoke completes and its task runs to its end. The task
\* goes on when the gather has already raised into complete_chat.
ResumeTask(k) ==
    /\ k \in DOMAIN tasks
    /\ tasks[k].state = "invoking"
    /\ AllStarted(tasks)
    /\ \E step \in Resumptions :
         LET out == ProcessToolCall(step, requests, ci, k, tasks[k], chat_history) IN
         /\ tasks' = [tasks EXCEPT ![k] = out.task]
         /\ chat_history' = out.history
         /\ gather_exc' = IF gather_exc = "none" THEN out.exc ELSE gather_exc
    /\ UNCHANGED <<api, auto_invoke, cpc, requests, completions, ci, chat_ret,
                   finish_reason, full_tool_calls, chunks_seen>>
    /\ UNCHANGED <<invokeVars, tokVars, argVars, libVars>>

\* The gather of lines 353-355 raises the first exception of its tasks into
\* the awaiting coroutine, which does not catch it.
GatherRaises ==
    /\ cpc = "gather"
    /\ AllStarted(tasks)
    /\ gather_exc # "none"
    /\ cpc' = "raised"
    /\ chat_ret' = gather_exc
    /\ UNCHANGED <<api, auto_invoke, requests, completions, ci, chat_history,
                   tasks, gather_exc, finish_reason, full_tool_calls, chunks_seen>>
    /\ UNCHANGED <<invokeVars, tokVars, argVars, libVars>>

\* complete_chat: the gather returns; lines 188-191 go on with the next
\* completion, or lines 100 and 93 with the next iteration, or the loop ends
\* and the function returns without a return statement.
GatherDoneChat ==
    /\ api = "complete_chat"
    /\ cpc = "gather"
    /\ gather_exc = "none"
    /\ GatherReturns(tasks)
    /\ IF ci < Len(completions)
       THEN /\ ci' = ci + 1
            /\ chat_history' =
                   store_results(chat_history, <<AssistantMessage(requests, ci')>>)
            /\ tasks' = NewTasks(completions[ci'])
            /\ UNCHANGED <<cpc, chat_ret>>
       ELSE /\ IF LoopContinues(requests)
               THEN cpc' = "send" /\ UNCHANGED chat_ret
               ELSE cpc' = "returned" /\ chat_ret' = "None"
            /\ UNCHANGED <<ci, chat_history, tasks>>
    /\ UNCHANGED <<api, auto_invoke, requests, completions, gather_exc,
                   finish_reason, full_tool_calls, chunks_seen>>
    /\ UNCHANGED <<invokeVars, tokVars, argVars, libVars>>

\* complete_chat_stream, lines 131-134: one streaming request.
SendChatStreamRequest ==
    /\ api = "complete_chat_stream"
    /\ cpc = "send"
    /\ requests' = requests + 1
    /\ finish_reason' = "None"
    /\ full_tool_calls' = 0
    /\ chunks_seen' = 0
    /\ cpc' = "chunks"
    /\ UNCHANGED <<api, auto_invoke, completions, ci, chat_history, tasks,
                   gather_exc, chat_ret>>
    /\ UNCHANGED <<invokeVars, tokVars, argVars, libVars>>

\* complete_chat_stream, lines 143-145 and 132: after the generator
\* _process_chat_stream_response has ended.
AfterStreamResponse(fr, n) ==
    IF fr # "tool_calls" THEN "returned"
    ELSE IF LoopContinues(n) THEN "send" ELSE "returned"

\* open_ai_chat_completion_base.py:216: is the chunk yielded to the caller
StreamYields(chunk) ==
    chunk.tool_calls = 0 \/ chunk.finish_reason \notin {"stop", "tool_calls", "None"}

\* _process_chat_stream_response, lines 203-225, for one chunk of the response.
StreamChunk ==
    /\ api = "complete_chat_stream"
    /\ cpc = "chunks"
    /\ chunks_seen < MaxChunks
    /\ chunks_seen' = chunks_seen + 1
    /\ \E chunk \in Chunks :
         IF ~chunk.has_choices
         THEN \* lines 204-205
              UNCHANGED <<auto_invoke, cpc, ci, chat_history, tasks, chat_ret,
                          finish_reason, full_tool_calls, completions>>
         ELSE IF ~auto_invoke
         THEN \* lines 211-213
              /\ finish_reason' = "None"
              /\ UNCHANGED <<auto_invoke, cpc, ci, chat_history, tasks, chat_ret,
                             full_tool_calls, completions>>
         ELSE LET full == AddToolCalls(full_tool_calls, chunk.tool_calls)
                  fr == IF StreamYields(chunk) THEN chunk.finish_reason
                        ELSE finish_reason
              IN
              /\ full_tool_calls' = full
              /\ finish_reason' = fr
              /\ CASE chunk.finish_reason = "stop" ->
                        \* lines 219-221, then 143-144
                        /\ auto_invoke' = FALSE
                        /\ cpc' = AfterStreamResponse(fr, requests)
                        /\ chat_ret' = IF cpc' = "returned" THEN "stream_end"
                                       ELSE chat_ret
                        /\ UNCHANGED <<ci, chat_history, tasks, completions>>
                   [] chunk.finish_reason = "tool_calls" ->
                        \* lines 222-224 and 352-355
                        /\ chat_history' =
                               add_message(chat_history, AssistantMessage(requests, 1))
                        /\ IF full = 0
                           THEN \* len(result.tool_calls) of None
                                /\ cpc' = "raised"
                                /\ chat_ret' = "TypeError"
                                /\ UNCHANGED <<ci, tasks, completions>>
                           ELSE /\ cpc' = "gather"
                                /\ ci' = 1
                                /\ completions' = <<full>>
                                /\ tasks' = NewTasks(full)
                                /\ UNCHANGED chat_ret
                        /\ UNCHANGED auto_invoke
                   [] OTHER ->
                        UNCHANGED <<auto_invoke, cpc, ci, chat_history, tasks,
                                    chat_ret, completions>>
    /\ UNCHANGED <<api, requests, gather_exc>>
    /\ UNCHANGED <<invokeVars, tokVars, argVars, libVars>>

\* The streamed response ends without a "stop" or "tool_calls" chunk.
StreamExhausted ==
    /\ api = "complete_chat_stream"
    /\ cpc = "chunks"
    /\ cpc' = AfterStreamResponse(finish_reason, requests)
    /\ chat_ret' = IF cpc' = "returned" THEN "stream_end" ELSE chat_ret
    /\ UNCHANGED <<api, auto_invoke, requests, completions, ci, chat_history,
                   tasks, gather_exc, finish_reason, full_tool_calls, chunks_seen>>
    /\ UNCHANGED <<invokeVars, tokVars, argVars, libVars>>

\* complete_chat_stream: the gather of line 224 returns; line 225 ends the
\* generator and lines 143-145 decide about another iteration.
GatherDoneStream ==
    /\ api = "complete_chat_stream"
    /\ cpc = "gather"
    /\ gather_exc = "none"
    /\ GatherReturns(tasks)
    /\ cpc' = AfterStreamResponse(finish_reason, requests)
    /\ chat_ret' = IF cpc' = "returned" THEN "stream_end" ELSE chat_ret
    /\ UNCHANGED <<api, auto_invoke, requests, completions, ci, chat_history,
                   tasks, gather_exc, finish_reason, full_tool_calls, chunks_seen>>
    /\ UNCHANGED <<invokeVars, tokVars, argVars, libVars>>

NextChat ==
    \/ SendChatRequest
    \/ \E k \in DOMAIN tasks : StartTask(k)
    \/ \E k \in DOMAIN tasks : ResumeTask(k)
    \/ GatherRaises
    \/ GatherDoneChat
    \/ SendChatStreamRequest
    \/ StreamChunk
    \/ StreamExhausted
    \/ GatherDoneStream

\* ---- TemplateTokenizer.tokenize ---------------------------------------------

\* Symbols.BLOCK_STARTER, BLOCK_ENDER, DBL_QUOTE, SGL_QUOTE, ESCAPE_CHAR, SPACE
BLOCK_STARTER == "{"
BLOCK_ENDER == "}"
DBL_QUOTE == "\""
SGL_QUOTE == "'"
ESCAPE_CHAR == "\\"
SPACE == " "
VAR_PREFIX == "$"

\* The characters of the templates considered; "a" stands for any character
\* that is no symbol of the template language.
Chars == {BLOCK_STARTER, BLOCK_ENDER, DBL_QUOTE, SGL_QUOTE, ESCAPE_CHAR, SPACE,
          VAR_PREFIX, "=", "a"}

\* The parts templates are put together from: the two delimiters, a whole
\* function call block, a function call block with an argument "a=" that is
\* no named argument, a whitespace-only block, a block of a variable followed
\* by a value, a block of a value followed by a variable, a literal that holds
\* an escaped quote and the closing delimiter, and every single character (so
\* that every string over Chars is a template).
Parts == {<<BLOCK_STARTER, BLOCK_STARTER>>, <<BLOCK_ENDER, BLOCK_ENDER>>,
          <<BLOCK_STARTER, BLOCK_STARTER, "a", BLOCK_ENDER, BLOCK_ENDER>>,
          <<BLOCK_STARTER, BLOCK_STARTER, "a", SPACE, "a", "=",
            BLOCK_ENDER, BLOCK_ENDER>>,
          <<BLOCK_STARTER, BLOCK_STARTER, SPACE, BLOCK_ENDER, BLOCK_ENDER>>,
          <<BLOCK_STARTER, BLOCK_STARTER, VAR_PREFIX, "a", SPACE,
            SGL_QUOTE, "a", SGL_QUOTE, BLOCK_ENDER, BLOCK_ENDER>>,
          <<BLOCK_STARTER, BLOCK_STARTER, SGL_QUOTE, "a", SGL_QUOTE, SPACE,
            VAR_PREFIX, "a", BLOCK_ENDER, BLOCK_ENDER>>,
          <<SGL_QUOTE, ESCAPE_CHAR, SGL_QUOTE, BLOCK_ENDER, BLOCK_ENDER, SGL_QUOTE>>}
             \cup {<<c>> : c \in Chars}

RECURSIVE Concat(_)
Concat(ps) == IF ps = <<>> THEN <<>> ELSE Head(ps) \o Concat(Tail(ps))

Templates == {Concat(ps) : ps \in UNION {[1..n -> Parts] : n \in 0..MaxParts}}

\* python's t[a:b] for 0 <= a <= b <= len(t)
Slice(t, a, b) == SubSeq(t, a + 1, b)

\* mutant: nothing is trimmed
Strip_Nothing(t) == t

\* python's str.strip(), for the whitespace of Chars
RECURSIVE LStrip(_)
LStrip(t) == IF t # <<>> /\ Head(t) = SPACE THEN LStrip(Tail(t)) ELSE t
RECURSIVE RStrip(_)
RStrip(t) ==
    IF t # <<>> /\ t[Len(t)] = SPACE THEN RStrip(SubSeq(t, 1, Len(t) - 1)) ELSE t
Strip(t) == RStrip(LStrip(t))

\* A block: its type, the span [start, stop) of the template it was cut from,
\* and its content.
Block(type, start, stop, content) ==
    [type |-> type, start |-> start, stop |-> stop, content |-> content]

\* TextBlock.from_text(text, start_index, stop_index)
TextBlock_from_text(t, start, stop) == Block("TEXT", start, stop, Slice(t, start, stop))

\* CodeTokenizer.tokenize(content), as far as TemplateTokenizer reads it: the
\* type of the first token, or the exception raised when the content is no
\* value, variable or function call. A value is a quoted literal closed by the
\* quote that opened it, a variable is "$" and a name.
RECURSIVE ValueEnd(_, _, _)
\* the index of the quote closing the literal that quote q opened before index i
ValueEnd(c, q, i) ==
    IF i > Len(c) THEN 0
    ELSE IF c[i] = ESCAPE_CHAR /\ i < Len(c)
              /\ c[i + 1] \in {DBL_QUOTE, SGL_QUOTE, ESCAPE_CHAR}
         THEN ValueEnd(c, q, i + 2)
    ELSE IF c[i] = q THEN i
    ELSE ValueEnd(c, q, i + 1)

RECURSIVE IdentifierEnd(_, _)
IdentifierEnd(c, i) ==
    IF i <= Len(c) /\ c[i] = "a" THEN IdentifierEnd(c, i + 1) ELSE i - 1

RECURSIVE SegmentEnd(_, _, _)
\* the index of the last character of the whitespace-separated segment that
\* index i is in, q being the quote of the literal index i is in ("None")
SegmentEnd(c, i, q) ==
    IF i > Len(c) THEN Len(c)
    ELSE IF q = "None"
    THEN IF c[i] = SPACE THEN i - 1
         ELSE IF c[i] \in {DBL_QUOTE, SGL_QUOTE} THEN SegmentEnd(c, i + 1, c[i])
         ELSE SegmentEnd(c, i + 1, "None")
    ELSE IF c[i] = ESCAPE_CHAR /\ i < Len(c)
              /\ c[i + 1] \in {DBL_QUOTE, SGL_QUOTE, ESCAPE_CHAR}
         THEN SegmentEnd(c, i + 2, q)
    ELSE IF c[i] = q THEN SegmentEnd(c, i + 1, "None")
    ELSE SegmentEnd(c, i + 1, q)

\* the characters of the class [0-9A-Za-z_]: "a" a letter, "1" a digit
NameChars == {"a", "1", "_"}

RECURSIVE NameEnd(_, _)
\* the index of the last character of the longest run of NameChars from index i
NameEnd(c, i) ==
    IF i <= Len(c) /\ c[i] \in NameChars THEN NameEnd(c, i + 1) ELSE i - 1

\* named_arg_block.py:21-23, NAMED_ARG_REGEX matched against the whole content:
\* a name of [0-9A-Za-z_]+, "=", and either one character of the class
\* [${1}] followed by a name, or a quote, one character, characters that are
\* none of the class [^"^'], and the quote that opened.
NAMED_ARG_MATCHER_match(content) ==
    LET n == NameEnd(content, 1) IN
    /\ n >= 1
    /\ Len(content) >= n + 2
    /\ content[n + 1] = "="
    /\ \/ /\ content[n + 2] \in {"$", "{", "1", "}"}
          /\ Len(content) >= n + 3
          /\ NameEnd(content, n + 3) = Len(content)
       \/ /\ content[n + 2] \in {DBL_QUOTE, SGL_QUOTE}
          /\ Len(content) >= n + 4
          /\ content[Len(content)] = content[n + 2]
          /\ \A k \in (n + 4)..(Len(content) - 1) :
                content[k] \notin {DBL_QUOTE, SGL_QUOTE, "^"}

\* named_arg_block.py:37-40, NamedArgBlock.parse_content
NamedArgBlock_parse_content(content) ==
    IF NAMED_ARG_MATCHER_match(Strip(content)) THEN "none"
    ELSE "NamedArgBlockSyntaxError"

RECURSIVE ArgumentsError(_)
\* (ws argument)* with argument ::= value | variable | named-arg, for the
\* rest of the content: "none" or the exception of the first argument that
\* is none of these.
ArgumentsError(c) ==
    IF c = <<>> THEN "none"
    ELSE IF Head(c) # SPACE THEN "CodeBlockSyntaxError"
    ELSE LET r == LStrip(c) IN
         IF r = <<>> THEN "none"
         ELSE IF Head(r) \in {DBL_QUOTE, SGL_QUOTE}
              THEN LET e == ValueEnd(r, Head(r), 2) IN
                   IF e = 0 THEN "ValBlockSyntaxError"
                   ELSE ArgumentsError(SubSeq(r, e + 1, Len(r)))
         ELSE IF Head(r) = VAR_PREFIX
              THEN LET e == IdentifierEnd(r, 2) IN
                   IF e < 2 THEN "VarBlockSyntaxError"
                   ELSE ArgumentsError(SubSeq(r, e + 1, Len(r)))
         ELSE LET e == SegmentEnd(r, 1, "None")
                  error == NamedArgBlock_parse_content(SubSeq(r, 1, e))
              IN IF error # "none" THEN error
                 ELSE ArgumentsError(SubSeq(r, e + 1, Len(r)))

CodeTokenizer_tokenize(content) ==
    IF Head(content) \in {DBL_QUOTE, SGL_QUOTE}
    THEN LET e == ValueEnd(content, Head(content), 2) IN
         IF e = 0 THEN "ValBlockSyntaxError"
         ELSE LET error == ArgumentsError(SubSeq(content, e + 1, Len(content))) IN
              IF error = "none" THEN "VALUE" ELSE error
    ELSE IF Head(content) = VAR_PREFIX
    THEN LET e == IdentifierEnd(content, 2) IN
         IF e < 2 THEN "VarBlockSyntaxError"
         ELSE LET error == ArgumentsError(SubSeq(content, e + 1, Len(content))) IN
              IF error = "none" THEN "VARIABLE" ELSE error
    ELSE LET e == IdentifierEnd(content, 1) IN
         IF e = 0 \/ (e < Len(content) /\ content[e + 1] # SPACE)
         THEN "FunctionIdBlockSyntaxError"
         ELSE LET error == ArgumentsError(SubSeq(content, e + 1, Len(content))) IN
              IF error = "none" THEN "FUNCTION_ID" ELSE error

\* the content of code_blocks[0], the first token of a content that
\* CodeTokenizer.tokenize takes
FirstToken(content) ==
    IF Head(content) \in {DBL_QUOTE, SGL_QUOTE}
    THEN SubSeq(content, 1, ValueEnd(content, Head(content), 2))
    ELSE IF Head(content) = VAR_PREFIX
    THEN SubSeq(content, 1, IdentifierEnd(content, 2))
    ELSE SubSeq(content, 1, IdentifierEnd(content, 1))

\* mutant: the whole content of the delimiter pair is kept in the block
BlockOfTokens_WholeContent(first, content, start, stop) ==
    Block(IF first \in {"VALUE", "VARIABLE", "TEXT"} THEN first ELSE "CODE",
          start, stop, content)

\* template_tokenizer.py:121-129: the block made of the tokens of a content,
\* `first` being code_blocks[0].type
BlockOfTokens(first, content, start, stop) ==
    IF first \in {"VALUE", "VARIABLE", "TEXT"}
    THEN Block(first, start, stop, FirstToken(content))
    ELSE Block("CODE", start, stop, content)

\* template_tokenizer.py:130-136: the exceptions the tokenizer turns into
\* TemplateSyntaxError
CaughtErrors == {"CodeBlockTokenError", "CodeBlockSyntaxError", "VarBlockSyntaxError",
                 "ValBlockSyntaxError", "FunctionIdBlockSyntaxError"}

\* template_tokenizer.py:110-139: the block (or the error) made of the
\* delimited span [start, stop) of the template.
DelimitedBlock(t, start, stop) ==
    LET content_with_delimiters == Slice(t, start, stop)
        content_without_delimiters ==
            Strip(SubSeq(content_with_delimiters, 3, Len(content_with_delimiters) - 2))
    IN IF Len(content_without_delimiters) = 0
       THEN [error |-> "none",
             block |-> Block("TEXT", start, stop, content_with_delimiters)]
       ELSE LET first == CodeTokenizer_tokenize(content_without_delimiters) IN
            IF first \in CaughtErrors
            THEN [error |-> "TemplateSyntaxError",
                  block |-> Block("NONE", start, stop, <<>>)]
            ELSE IF first \notin {"VALUE", "VARIABLE", "TEXT", "FUNCTION_ID"}
            THEN \* an exception the except clause does not name
                 [error |-> first, block |-> Block("NONE", start, stop, <<>>)]
            ELSE [error |-> "none",
                  block |-> BlockOfTokens(first, content_without_delimiters,
                                          start, stop)]

\* mutant: the last character of the block is left to the next span
EndOfBlock_OffByOne(next_char_pos) == next_char_pos

\* template_tokenizer.py:141: the position after the block that ends with the
\* character at next_char_pos
EndOfBlock(next_char_pos) == next_char_pos + 1

\* mutant: the escape character is a character like any other
EscapesNext_Never(current_char, next_char) == FALSE

\* template_tokenizer.py:81-85: inside a literal, the current character
\* escapes the next one
EscapesNext(current_char, next_char) ==
    /\ current_char = ESCAPE_CHAR
    /\ next_char \in {DBL_QUOTE, SGL_QUOTE, ESCAPE_CHAR}

\* template_tokenizer.py:52-58: the locals of the scan
ScanStart ==
    [blocks |-> <<>>, end_of_last_block |-> 0, block_start_pos |-> 0,
     block_start_found |-> FALSE, inside_text_value |-> FALSE,
     text_value_delimiter |-> "None", skip_next_char |-> FALSE, error |-> "none"]

\* template_tokenizer.py:62-142: one iteration of the loop, for the character
\* at current_char_pos (counted from 0) with the locals s.
ScanChar(t, current_char_pos, s) ==
    LET current_char == t[current_char_pos + 1]
        next_char_pos == current_char_pos + 1
        next_char == t[next_char_pos + 1]
    IN
    IF s.skip_next_char THEN [s EXCEPT !.skip_next_char = FALSE]
    ELSE
    LET starts == /\ ~s.inside_text_value
                  /\ current_char = BLOCK_STARTER
                  /\ next_char = BLOCK_STARTER
        s1 == IF starts
              THEN [s EXCEPT !.block_start_pos = current_char_pos,
                             !.block_start_found = TRUE]
              ELSE s
    IN
    IF ~s1.block_start_found THEN s1
    ELSE IF s1.inside_text_value
    THEN IF EscapesNext(current_char, next_char)
         THEN [s1 EXCEPT !.skip_next_char = TRUE]
         ELSE IF current_char = s1.text_value_delimiter
         THEN [s1 EXCEPT !.inside_text_value = FALSE]
         ELSE s1
    ELSE IF current_char \in {DBL_QUOTE, SGL_QUOTE}
    THEN [s1 EXCEPT !.inside_text_value = TRUE, !.text_value_delimiter = current_char]
    ELSE IF current_char = BLOCK_ENDER /\ next_char = BLOCK_ENDER
    THEN LET before ==
                 IF s1.block_start_pos > s1.end_of_last_block
                 THEN <<TextBlock_from_text(t, s1.end_of_last_block, s1.block_start_pos)>>
                 ELSE <<>>
             made == DelimitedBlock(t, s1.block_start_pos, next_char_pos + 1)
         IN IF made.error # "none"
            THEN [s1 EXCEPT !.error = made.error]
            ELSE [s1 EXCEPT !.blocks = s1.blocks \o before \o <<made.block>>,
                            !.end_of_last_block = EndOfBlock(next_char_pos),
                            !.block_start_found = FALSE]
    ELSE s1

RECURSIVE Scan(_, _, _)
\* template_tokenizer.py:61: for current_char_pos, current_char in enumerate(text[:-1])
Scan(t, current_char_pos, s) ==
    IF current_char_pos >= Len(t) - 1 \/ s.error # "none" THEN s
    ELSE Scan(t, current_char_pos + 1, ScanChar(t, current_char_pos, s))

\* A block shorter than 5 chars is either empty or invalid (line 40)
MIN_CODE_BLOCK_LENGTH == 5

\* TemplateTokenizer.tokenize(text)
tokenize(t) ==
    IF Len(t) = 0 THEN [error |-> "none", blocks |-> <<Block("TEXT", 0, 0, <<>>)>>]
    ELSE IF Len(t) < MIN_CODE_BLOCK_LENGTH
    THEN [error |-> "none", blocks |-> <<Block("TEXT", 0, Len(t), t)>>]
    ELSE LET s == Scan(t, 0, ScanStart) IN
         IF s.error # "none" THEN [error |-> s.error, blocks |-> <<>>]
         ELSE IF s.end_of_last_block < Len(t)
         THEN [error |-> "none",
               blocks |-> Append(s.blocks,
                                 TextBlock_from_text(t, s.end_of_last_block, Len(t)))]
         ELSE [error |-> "none", blocks |-> s.blocks]

NoResult == [error |-> "none", blocks |-> <<>>]

InitTok ==
    /\ text \in Templates
    /\ tpc = "input"
    /\ result = NoResult

InitTokIdle ==
    /\ text = <<>>
    /\ tpc = "idle"
    /\ result = NoResult

\* A call of TemplateTokenizer.tokenize(text)
Tokenize ==
    /\ tpc = "input"
    /\ tpc' = "done"
    /\ result' = tokenize(text)
    /\ UNCHANGED text
    /\ UNCHANGED <<invokeVars, chatVars, argVars, libVars>>

NextTok == Tokenize

\* ---- _process_tool_calls: the argument tables ------------------------------

\* The variables of the argument tables considered.
ArgNames == {"x", "y"}

\* The KernelArguments objects: `arguments` and one per tool call.
ArgObjects == 0..MaxToolCalls

\* A table gives each name -1 (not in the table), 0 (the value the caller
\* put) or k (the value of the argument payload of tool call k).
NoArguments == [n \in ArgNames |-> -1]
CallerTables == [ArgNames -> {-1, 0}]

\* func.parse_arguments() of tool call k: a dict of some of the names.
ParsedArguments(k) == [ArgNames -> {-1, k}]

\* dict.update
update(table, other) ==
    [n \in ArgNames |-> IF other[n] # -1 THEN other[n] ELSE table[n]]

\* mutant: the branch is handed the caller's object itself
copy_SameObject(object, fresh) == object

\* open_ai_chat_completion_base.py:354, copy(arguments): the object the
\* branch gets, `fresh` being a new object with the entries of `object`.
copy(object, fresh) == fresh

InitToolArgs ==
    /\ apc = "input"
    /\ tool_call_count \in 1..MaxToolCalls
    /\ caller_arguments \in CallerTables
    /\ tables = [o \in ArgObjects |-> IF o = 0 THEN caller_arguments ELSE NoArguments]
    /\ args_cloned = <<>>
    /\ parsed_args = <<>>
    /\ args_done = 0

InitToolArgsIdle ==
    /\ apc = "idle"
    /\ tool_call_count = 0
    /\ caller_arguments = NoArguments
    /\ tables = [o \in ArgObjects |-> NoArguments]
    /\ args_cloned = <<>>
    /\ parsed_args = <<>>
    /\ args_done = 0

\* _process_tool_calls, lines 353-355: the list of coroutines is built, each
\* with its copy of `arguments`, before any of them runs.
ProcessToolCalls ==
    /\ apc = "input"
    /\ apc' = "gather"
    /\ tables' = [o \in ArgObjects |->
                     IF o \in 1..tool_call_count THEN tables[0] ELSE tables[o]]
    /\ args_cloned' = [k \in 1..tool_call_count |-> copy(0, k)]
    /\ parsed_args' = [k \in 1..tool_call_count |-> NoArguments]
    /\ UNCHANGED <<tool_call_count, args_done, caller_arguments>>
    /\ UNCHANGED <<invokeVars, chatVars, tokVars, libVars>>

\* _process_tool_call, lines 364-384, of the next tool call in creation
\* order: no function, a malformed payload, or the parsed arguments are put
\* into args_cloned and kernel.invoke is called with it.
ParseToolCallArguments ==
    /\ apc = "gather"
    /\ args_done < tool_call_count
    /\ args_done' = args_done + 1
    /\ \E outcome \in {"no_function", "malformed", "parsed"} :
         IF outcome = "parsed"
         THEN \E parsed \in ParsedArguments(args_done') :
                /\ parsed_args' = [parsed_args EXCEPT ![args_done'] = parsed]
                /\ tables' = [tables EXCEPT ![args_cloned[args_done']] =
                                                 update(@, parsed)]
         ELSE UNCHANGED <<parsed_args, tables>>
    /\ UNCHANGED <<apc, tool_call_count, args_cloned, caller_arguments>>
    /\ UNCHANGED <<invokeVars, chatVars, tokVars, libVars>>

NextToolArgs ==
    \/ ProcessToolCalls
    \/ ParseToolCallArguments

\* ---- NamedArgBlock(content=...) ----------------------------------------------

\* The parts the contents handed to NamedArgBlock are put together from: a
\* name with its "=", and single characters.
ArgParts == {<<"a", "=">>, <<"a">>, <<"1">>, <<"=">>, <<"$">>, <<BLOCK_STARTER>>,
             <<SGL_QUOTE>>, <<DBL_QUOTE>>, <<"^">>, <<SPACE>>}

ArgContents == {Concat(ps) : ps \in UNION {[1..n -> ArgParts] : n \in 0..MaxArgParts}}

InitNamedArg ==
    /\ arg_content \in ArgContents
    /\ npc = "input"
    /\ named_arg = "none"

InitNamedArgIdle ==
    /\ arg_content = <<>>
    /\ npc = "idle"
    /\ named_arg = "none"

\* NamedArgBlock(content=arg_content): the validator parse_content runs
CreateNamedArgBlock ==
    /\ npc = "input"
    /\ npc' = "done"
    /\ named_arg' = NamedArgBlock_parse_content(arg_content)
    /\ UNCHANGED arg_content
    /\ UNCHANGED <<invokeVars, chatVars, tokVars, argVars, renderVars, pluginVars,
                   contentVars>>

NextNamedArg == CreateNamedArgBlock

\* ---- KernelPromptTemplate.render ---------------------------------------------

\* the variables a template refers to
RenderNames == {"x", "y"}

\* The values of an argument table: strings without and with a character
\* that urllib.parse.quote encodes, a value that is no string (text: its
\* str()), and Missing for a name that is not in the table.
Missing == [present |-> FALSE, is_str |-> FALSE, text |-> <<>>]
RenderValues ==
    {[present |-> TRUE, is_str |-> TRUE, text |-> <<"a">>],
     [present |-> TRUE, is_str |-> TRUE, text |-> <<"<">>],
     [present |-> TRUE, is_str |-> TRUE, text |-> <<"a", "<">>],
     [present |-> TRUE, is_str |-> FALSE, text |-> <<"1">>],
     Missing}

\* An input variable of the config: none of the name, one that does not
\* allow dangerous content (the default), one that allows it.
InputVariableKinds == {"absent", "default", "allow"}

\* The blocks of a template: text and variable blocks.
RenderBlocks == {[type |-> "TEXT", content |-> "t"]}
                   \cup {[type |-> "VARIABLE", content |-> n] : n \in RenderNames}

\* urllib.parse.quote(value): letters, digits and "_.-~/" stay, every other
\* character becomes "%" and two hex digits
RECURSIVE quote(_)
quote(value) ==
    IF value = <<>> THEN <<>>
    ELSE (IF Head(value) = "<" THEN <<"%", "3", "C">> ELSE <<Head(value)>>)
            \o quote(Tail(value))

\* prompt_template_base.py:62-80
should_encode(name, variables) ==
    IF variables[name] # "absent" THEN variables[name] # "allow" ELSE TRUE

\* prompt_template_base.py:24-48
get_allowed_unsafe_arguments(allow, args, variables) ==
    IF allow THEN args
    ELSE [name \in RenderNames |->
            IF args[name].present /\ args[name].is_str /\ should_encode(name, variables)
            THEN [args[name] EXCEPT !.text = quote(@)]
            ELSE args[name]]

\* VarBlock.render(kernel, arguments) and TextBlock.render: the value of the
\* name as a string, the empty string for a name that is not in the table
Block_render(block, args) ==
    IF block.type = "TEXT" THEN <<block.content>>
    ELSE IF args[block.content].present THEN args[block.content].text
    ELSE <<>>

\* render_blocks as it would be with the table of _get_allowed_unsafe_arguments
\* (lines 24-48) in the place of the arguments: no line of render calls it
render_blocks_Encoded(blocks, allow, args, variables) ==
    [i \in 1..Len(blocks) |->
        Block_render(blocks[i], get_allowed_unsafe_arguments(allow, args, variables))]

\* kernel_prompt_template.py:88-90 and 103-109: render hands the arguments it
\* got to render_blocks, which renders every block with them
render_blocks(blocks, allow, args, variables) ==
    [i \in 1..Len(blocks) |-> Block_render(blocks[i], args)]

\* kernel_prompt_template.py:110, "".join(rendered_blocks)
RECURSIVE join(_)
join(strings) == IF strings = <<>> THEN <<>> ELSE Head(strings) \o join(Tail(strings))

InitRender ==
    /\ allow_dangerously_set_content \in BOOLEAN
    /\ input_variables \in [RenderNames -> InputVariableKinds]
    /\ render_arguments \in [RenderNames -> RenderValues]
    /\ template_blocks \in UNION {[1..n -> RenderBlocks] : n \in 0..MaxBlocks}
    \* model_post_init, lines 31-37: every variable of the template has an
    \* input variable
    /\ \A i \in 1..Len(template_blocks) :
          template_blocks[i].type = "VARIABLE"
             => input_variables[template_blocks[i].content] # "absent"
    /\ rendered_blocks = <<>>
    /\ prompt = <<>>
    /\ rpc = "input"

InitRenderIdle ==
    /\ allow_dangerously_set_content = FALSE
    /\ input_variables = [name \in RenderNames |-> "absent"]
    /\ render_arguments = [name \in RenderNames |-> Missing]
    /\ template_blocks = <<>>
    /\ rendered_blocks = <<>>
    /\ prompt = <<>>
    /\ rpc = "idle"

\* KernelPromptTemplate.render(kernel, arguments), lines 75-112
Render ==
    /\ rpc = "input"
    /\ rpc' = "done"
    /\ rendered_blocks' = render_blocks(template_blocks, allow_dangerously_set_content,
                                        render_arguments, input_variables)
    /\ prompt' = join(rendered_blocks')
    /\ UNCHANGED <<allow_dangerously_set_content, input_variables, render_arguments,
                   template_blocks>>
    /\ UNCHANGED <<invokeVars, chatVars, tokVars, argVars, namedVars, pluginVars,
                   contentVars>>

NextRender == Render

\* ---- Kernel.add_functions / KernelPlugin ---------------------------------------

PluginNames == {"p", "q"}
FunctionNames == {"f", "g"}

\* The lists of functions handed to add_functions and update, by the names
\* of the functions; the k-th function object handed in is object k.
FunctionLists == UNION {[1..n -> FunctionNames] : n \in 1..2}

NoFunctions == [name \in FunctionNames |-> 0]

\* kernel_plugin.py:140-141, KernelPlugin.__setitem__ (and set, lines 143-151)
setitem(functions, key, value) == [functions EXCEPT ![key] = value]

\* kernel_plugin.py:179-181 (and 493-499 for a new plugin): every function of
\* the list is set under its name, in the order of the list
RECURSIVE update_list(_, _, _)
update_list(functions, names, made) ==
    IF names = <<>> THEN functions
    ELSE update_list(setitem(functions, Head(names), made + 1), Tail(names), made + 1)

InitPlugins ==
    /\ plugins = [name \in PluginNames |-> [present |-> FALSE, functions |-> NoFunctions]]
    /\ functions_made = 0
    /\ plugin_error = "none"
    /\ ppc = "ready"

InitPluginsIdle ==
    /\ plugins = [name \in PluginNames |-> [present |-> FALSE, functions |-> NoFunctions]]
    /\ functions_made = 0
    /\ plugin_error = "none"
    /\ ppc = "idle"

\* Kernel.add_functions(plugin_name, functions), lines 410-425; add_function
\* (lines 400-408) is the call with a list of one function.
AddFunctions(plugin_name, names) ==
    /\ ppc = "ready"
    /\ functions_made + Len(names) <= MaxFunctions
    /\ plugins' = [plugins EXCEPT ![plugin_name] =
                     [present |-> TRUE,
                      functions |-> update_list(IF plugins[plugin_name].present
                                                THEN plugins[plugin_name].functions
                                                ELSE NoFunctions,
                                                names, functions_made)]]
    /\ functions_made' = functions_made + Len(names)
    /\ plugin_error' = "none"
    /\ UNCHANGED ppc
    /\ UNCHANGED <<invokeVars, chatVars, tokVars, argVars, namedVars, renderVars,
                   contentVars>>

\* KernelPlugin.set(key, value) of the plugin plugin_name, lines 143-151
PluginSet(plugin_name, key) ==
    /\ ppc = "ready"
    /\ plugins[plugin_name].present
    /\ functions_made < MaxFunctions
    /\ plugins' = [plugins EXCEPT ![plugin_name].functions =
                     setitem(@, key, functions_made + 1)]
    /\ functions_made' = functions_made + 1
    /\ plugin_error' = "none"
    /\ UNCHANGED ppc
    /\ UNCHANGED <<invokeVars, chatVars, tokVars, argVars, namedVars, renderVars,
                   contentVars>>

\* KernelPlugin.update(other) of the plugin plugin_name with a list of
\* functions, lines 159-187
PluginUpdate(plugin_name, names) ==
    /\ ppc = "ready"
    /\ plugins[plugin_name].present
    /\ functions_made + Len(names) <= MaxFunctions
    /\ plugins' = [plugins EXCEPT ![plugin_name].functions =
                     update_list(@, names, functions_made)]
    /\ functions_made' = functions_made + Len(names)
    /\ plugin_error' = "none"
    /\ UNCHANGED ppc
    /\ UNCHANGED <<invokeVars, chatVars, tokVars, argVars, namedVars, renderVars,
                   contentVars>>

\* ---- TextContent.__add__ / ToolCall.__add__ -----------------------------------

\* An inner content: None, the raw chunk of fragment i (obj = i), or a list
\* of inner contents.
NoInner == [is_list |-> FALSE, obj |-> 0, items |-> <<>>]
RawInner(i) == [is_list |-> FALSE, obj |-> i, items |-> <<>>]
ListInner(items) == [is_list |-> TRUE, obj |-> 0, items |-> items]

\* python's truth value of an inner content
Truthy(inner) == IF inner.is_list THEN inner.items # <<>> ELSE inner.obj # 0

\* The TextContent fragments that arrive at position i: with or without a
\* raw chunk, metadata (the value of one key, 0: no metadata), model id and
\* encoding; the text of the i-th fragment is the character i.
TextContents(i) ==
    [kind : {"text"},
     inner_content : {NoInner, RawInner(i)},
     ai_model_id : {"None", "m"},
     metadata : {0, 1, 2},
     text : {<<i>>},
     encoding : {"None", "e"}]

\* A function call of a tool call: None, or a name ("None": not in this
\* fragment) and a piece of the arguments.
NoFunctionCall == [present |-> FALSE, name |-> "None", arguments |-> <<>>]
FunctionCalls(i) ==
    {NoFunctionCall} \cup [present : {TRUE}, name : {"None", "f"}, arguments : {<<i>>}]

\* The ToolCall fragments that arrive at position i.
ToolCalls(i) ==
    [kind : {"tool"}, id : {"None", "id"}, function : FunctionCalls(i)]

\* python's `x or y` for an id, a name or an encoding, "None" the false one
Or(x, y) == IF x = "None" THEN y ELSE x

\* text_content.py:55-72, TextContent.__add__(self, other): the content it
\* returns. Lines 58-62 also assign or append to self.inner_content, the
\* list the result shares with self.
TextContent_add(self, other) ==
    [kind |-> "text",
     inner_content |->
        IF ~self.inner_content.is_list THEN ListInner(<<self.inner_content>>)
        ELSE IF Truthy(other.inner_content)
        THEN ListInner(Append(self.inner_content.items, other.inner_content))
        ELSE self.inner_content,
     ai_model_id |-> Or(self.ai_model_id, other.ai_model_id),
     metadata |-> IF other.metadata # 0 THEN other.metadata ELSE self.metadata,
     text |-> self.text \o other.text,
     encoding |-> Or(self.encoding, other.encoding)]

\* FunctionCall.__add__(self, other)
FunctionCall_add(self, other) ==
    IF ~other.present THEN self
    ELSE [present |-> TRUE, name |-> Or(self.name, other.name),
          arguments |-> self.arguments \o other.arguments]

\* tool_calls.py:17-25, ToolCall.__add__(self, other)
ToolCall_add(self, other) ==
    [kind |-> "tool",
     id |-> Or(self.id, other.id),
     function |-> IF self.function.present
                  THEN FunctionCall_add(self.function, other.function)
                  ELSE other.function]

\* left + right for two fragments of one kind
Content_add(left, right) ==
    IF left.kind = "text" THEN TextContent_add(left, right) ELSE ToolCall_add(left, right)

NoFragment == [kind |-> "none"]

InitContent ==
    /\ \/ \E a \in TextContents(1), b \in TextContents(2), c \in TextContents(3) :
              addends = <<a, b, c>>
       \/ \E a \in ToolCalls(1), b \in ToolCalls(2), c \in ToolCalls(3) :
              addends = <<a, b, c>>
    /\ left_sum = NoFragment
    /\ right_sum = NoFragment
    /\ mpc = "input"

InitContentIdle ==
    /\ addends = <<>>
    /\ left_sum = NoFragment
    /\ right_sum = NoFragment
    /\ mpc = "idle"

\* (a + b) + c and a + (b + c), each made from the fragments as they arrived
MergeFragments ==
    /\ mpc = "input"
    /\ mpc' = "done"
    /\ left_sum' = Content_add(Content_add(addends[1], addends[2]), addends[3])
    /\ right_sum' = Content_add(addends[1], Content_add(addends[2], addends[3]))
    /\ UNCHANGED addends
    /\ UNCHANGED <<invokeVars, chatVars, tokVars, argVars, namedVars, renderVars,
                   pluginVars>>

NextContent == MergeFragments

NextPlugins ==
    \/ \E plugin_name \in PluginNames, names \in FunctionLists :
          AddFunctions(plugin_name, names)
    \/ \E plugin_name \in PluginNames, key \in FunctionNames :
          PluginSet(plugin_name, key)
    \/ \E plugin_name \in PluginNames, names \in FunctionLists :
          PluginUpdate(plugin_name, names)

NextInvoke ==
    \/ InvokeStart
    \/ FunctionInvoke
    \/ InvokeFinish
    \/ StreamStart
    \/ StreamMessage
    \/ StreamEnd

\* ---- specifications ----------------------------------------------------------
InitLibIdle == InitNamedArgIdle /\ InitRenderIdle /\ InitPluginsIdle /\ InitContentIdle

InitOfInvoke == InitInvoke /\ InitChatIdle /\ InitTokIdle /\ InitToolArgsIdle /\ InitLibIdle

SpecInvoke == InitOfInvoke /\ [][NextInvoke]_vars

InitOfChat == InitChat /\ InitInvokeIdle /\ InitTokIdle /\ InitToolArgsIdle /\ InitLibIdle

SpecChat == InitOfChat /\ [][NextChat]_vars

InitOfTok == InitTok /\ InitInvokeIdle /\ InitChatIdle /\ InitToolArgsIdle /\ InitLibIdle

SpecTok == InitOfTok /\ [][NextTok]_vars

InitOfToolArgs == InitToolArgs /\ InitInvokeIdle /\ InitChatIdle /\ InitTokIdle /\ InitLibIdle

InitCoreIdle == InitInvokeIdle /\ InitChatIdle /\ InitTokIdle /\ InitToolArgsIdle

InitOfNamedArg ==
    InitNamedArg /\ InitCoreIdle /\ InitRenderIdle /\ InitPluginsIdle /\ InitContentIdle

SpecNamedArg == InitOfNamedArg /\ [][NextNamedArg]_vars

InitOfRender ==
    InitRender /\ InitCoreIdle /\ InitNamedArgIdle /\ InitPluginsIdle /\ InitContentIdle

SpecRender == InitOfRender /\ [][NextRender]_vars

InitOfPlugins ==
    InitPlugins /\ InitCoreIdle /\ InitNamedArgIdle /\ InitRenderIdle /\ InitContentIdle

InitOfContent ==
    InitContent /\ InitCoreIdle /\ InitNamedArgIdle /\ InitRenderIdle /\ InitPluginsIdle

SpecContent == InitOfContent /\ [][NextContent]_vars

SpecPlugins == InitOfPlugins /\ [][NextPlugins]_vars

SpecToolArgs == InitOfToolArgs /\ [][NextToolArgs]_vars

\* ---- claims about Kernel.invoke / Kernel.invoke_stream --------------------

\* C1 (as claimed): when function.invoke raised and no post-invoke handler
\* cleared the error, Kernel.invoke does not return a result to its caller.
C1_RaisedErrorPropagates ==
    ~(entry = "invoke" /\ pc = "returned" /\ ret # "None" /\ exception /\ ~cleared)

\* C2: when the pre-invoke handlers request cancellation, Kernel.invoke ends
\* at once with None: the function is not executed, no post-invoke event is
\* raised, and neither a result nor an error is produced.
C2_PreCancelReturnsNone ==
    /\ [][(entry = "invoke" /\ pc = "start"
            /\ function_invoking_args'.is_cancel_requested /\ pre_runs' # pre_runs)
          => (pc' = "returned" /\ ret' = "None" /\ calls' = calls
              /\ post_runs' = post_runs)]_vars
    /\ [](entry = "invoke" /\ function_invoking_args.is_cancel_requested
          => pc = "returned" /\ ret = "None")

C2_Witness ==
    /\ entry = "invoke" /\ pc = "returned" /\ ret = "None"
    /\ function_invoking_args.is_cancel_requested
    /\ calls = 0 /\ post_runs = 0

\* C3: when the post-invoke handlers requested a repeat on exactly the first
\* n post-invoke events of an invoke in which nothing was cancelled and no call
\* failed, the function was executed n+1 times and the post-invoke event was
\* raised n+1 times.
C3_RepeatCounts ==
    (entry = "invoke" /\ pc = "returned" /\ ~disturbed)
        => (calls = repeat_requests + 1 /\ post_runs = repeat_requests + 1)

C3_Witness ==
    /\ entry = "invoke" /\ pc = "returned" /\ ~disturbed
    /\ repeat_requests = MaxRepeat /\ calls = MaxRepeat + 1

\* C4 (as claimed): when a pre-invoke handler requests skip and none requests
\* cancellation, invoke and invoke_stream both end without executing the
\* function and without a result.
C4_SkipAbortsBoth ==
    (function_invoking_args.is_skip_requested
     /\ ~function_invoking_args.is_cancel_requested /\ repeats = 0)
        => (pc = "returned" /\ ret = "None" /\ calls = 0)

\* C24: when the post-invoke event carries no error and its handlers request
\* cancellation, Kernel.invoke returns at once with the result that is set on
\* the event (the handlers' replacement if they replaced it; an empty
\* FunctionResult when none is set), and the function is not executed again,
\* whether or not a repeat was requested too.
C24_PostCancelStops ==
    /\ [][(entry = "invoke" /\ pc = "post"
            /\ ~function_invoked_args'.exception
            /\ function_invoked_args'.is_cancel_requested)
          => (/\ pc' = "returned"
              /\ calls' = calls
              /\ repeats' = repeats
              /\ ret' = IF function_invoked_args'.function_result # "None"
                        THEN function_invoked_args'.function_result
                        ELSE "Empty")]_vars
    /\ [][(entry = "invoke" /\ pc = "returned") => calls' = calls]_vars

C24_Witness ==
    /\ entry = "invoke" /\ pc = "returned" /\ ret = "H"
    /\ ~function_invoked_args.exception
    /\ function_invoked_args.is_cancel_requested
    /\ function_invoked_args.is_repeat_requested
    /\ calls = 1 /\ post_runs = 1

\* C26: when the post-invoke handlers request a repeat (no error, no
\* cancellation), Kernel.invoke starts over without executing the function:
\* it starts with the argument table the post-invoke handlers put in place,
\* raises the pre-invoke event again before the function is executed, returns
\* None without executing it when that event requests cancellation, and
\* otherwise executes it on the table it started with unless the pre-invoke
\* handlers replaced the table.
C26_RepeatReentersFromStart ==
    /\ [][(entry = "invoke" /\ pc = "post"
            /\ ~function_invoked_args'.exception
            /\ ~function_invoked_args'.is_cancel_requested
            /\ function_invoked_args'.is_repeat_requested)
          => (/\ pc' = "start"
              /\ calls' = calls
              /\ pre_runs' = pre_runs
              /\ function_invoked_args'.updated_arguments
                    => arguments' = function_invoked_args'.arguments
              /\ ~function_invoked_args'.updated_arguments
                    => arguments' = arguments)]_vars
    /\ [][(entry = "invoke" /\ pc = "start" /\ repeats > 0)
          => (/\ pre_runs' = pre_runs + 1
              /\ calls' = calls
              /\ function_invoking_args'.is_cancel_requested
                    => (pc' = "returned" /\ ret' = "None")
              /\ ~function_invoking_args'.is_cancel_requested
                    => (/\ pc' = "call"
                        /\ ~function_invoking_args'.updated_arguments
                              => arguments' = arguments))]_vars
    /\ [][(entry = "invoke" /\ pc = "call")
          => (calls' = calls + 1 /\ call_args' = arguments)]_vars
    /\ [](entry = "invoke" /\ pc \in {"call", "post"}
             => pre_runs = calls + (IF pc = "call" THEN 1 ELSE 0))

C26_Witness ==
    /\ entry = "invoke" /\ pc = "post"
    /\ repeats = 1 /\ pre_runs = 2 /\ calls = 2
    /\ function_invoked_args.is_repeat_requested
    /\ function_invoked_args.updated_arguments
    /\ ~function_invoking_args.updated_arguments
    /\ call_args = "by_invoked_handler"

\* the fragments of the stream that carry choice index c, in arrival order
RECURSIVE FragmentsOf(_, _, _, _)
FragmentsOf(results, c, m, j) ==
    IF m > Len(results) THEN <<>>
    ELSE IF j > Len(results[m]) THEN FragmentsOf(results, c, m + 1, 1)
    ELSE (IF results[m][j] = c THEN <<(<<m, j>>)>> ELSE <<>>)
             \o FragmentsOf(results, c, m, j + 1)

\* C16 (as claimed): when invoke_stream was asked for the function results,
\* the aggregated value has, for every choice index of the stream, exactly
\* one content of that index, merged from exactly the fragments of that
\* index in arrival order.
C16_AggregatedPerChoiceIndex ==
    (entry = "invoke_stream" /\ pc = "returned" /\ ret = "stream_end"
     /\ return_function_results)
        => \A c \in {0, 1} :
              LET fragments == FragmentsOf(stream_function_result, c, 1, 1)
                  contents == {p \in 1..Len(output_function_result) :
                                  output_function_result[p].choice_index = c}
              IN IF fragments = <<>> THEN contents = {}
                 ELSE /\ Cardinality(contents) = 1
                      /\ \A p \in contents :
                            output_function_result[p].parts = fragments

\* ---- claims about complete_chat / complete_chat_stream --------------------

ToolMessagesOf(r, c) ==
    {i \in 1..Len(chat_history) :
        /\ chat_history[i].role = "tool"
        /\ chat_history[i].round = r
        /\ chat_history[i].completion = c}

\* the last response asked for tool calls in every completion
LastResponseAsksToolCalls ==
    completions # <<>> /\ ~ShouldReturnCompletionsResponse(completions)

\* C5: one call of complete_chat or complete_chat_stream sends at most
\* max_auto_invoke_attempts model requests: once that many are sent, the call
\* never comes back to the point where it sends a request.
C5_AttemptsBounded ==
    /\ requests <= MaxAttempts
    /\ cpc = "send" => requests < MaxAttempts

C5_Witness ==
    /\ auto_invoke /\ requests = MaxAttempts /\ cpc = "returned"
    /\ LastResponseAsksToolCalls
    /\ ToolMessagesOf(MaxAttempts, 1) # {}

\* C6 (as claimed): when every one of the max_auto_invoke_attempts responses
\* asked for tool calls, complete_chat returns the completions it received last.
C6_BudgetExhaustedReturnsLast ==
    (api = "complete_chat" /\ auto_invoke /\ cpc = "returned"
     /\ requests = MaxAttempts /\ LastResponseAsksToolCalls)
        => chat_ret = "completions"

\* C8 (as claimed): the tool messages of one completion of one round stand in
\* the history in the order of the tool calls of the response.
C8_ToolResultsInRequestOrder ==
    \A i, j \in 1..Len(chat_history) :
        (/\ i < j
         /\ chat_history[i].role = "tool" /\ chat_history[j].role = "tool"
         /\ chat_history[i].round = chat_history[j].round
         /\ chat_history[i].completion = chat_history[j].completion)
            => chat_history[i].call < chat_history[j].call

\* C9 (as claimed): with two or more tool calls in a response, a tool message
\* of the round is in the history only when every one of the calls has started.
C9_AllStartedBeforeAppend ==
    (Len(tasks) >= 2 /\ \E k \in DOMAIN tasks : tasks[k].appended)
        => AllStarted(tasks)

\* C10: a model request is sent only when every tool call of the round before
\* it has completed: none is still to start, suspended or failed.
C10_RoundBarrier ==
    /\ [][requests' > requests => GatherReturns(tasks)]_vars
    /\ [](cpc \in {"send", "chunks"} => GatherReturns(tasks))

C10_Witness ==
    /\ requests >= 2
    /\ \E i, j \in ToolMessagesOf(1, 1) :
          i < j /\ chat_history[i].call > chat_history[j].call

\* the tool messages of round r, completion c that answer tool call k
ToolMessagesFor(r, c, k) ==
    {i \in ToolMessagesOf(r, c) : chat_history[i].call = k}

\* C12: a tool call whose argument payload does not parse appends one tool
\* message that reports the malformation under the call's id, its function
\* is not invoked and its task ends normally; a round fails only through a
\* call whose function was invoked, so the other calls and the next request
\* proceed.
C12_MalformedIsReported ==
    /\ [][\A k \in DOMAIN tasks :
            (/\ k \in DOMAIN tasks' /\ tasks[k].state = "created"
             /\ tasks'[k].state = "done" /\ tasks'[k].appended /\ ~tasks'[k].invoked)
                => chat_history' =
                      Append(chat_history, ToolMessage(requests, ci, k, "malformed"))]_vars
    /\ [](\A i \in ToolMessagesOf(requests, ci) :
             chat_history[i].content = "malformed"
                => /\ chat_history[i].call \in DOMAIN tasks
                   /\ tasks[chat_history[i].call].state = "done"
                   /\ ~tasks[chat_history[i].call].invoked)
    /\ [](gather_exc # "none"
             => \E k \in DOMAIN tasks : tasks[k].state = "failed" /\ tasks[k].invoked)

C12_Witness ==
    /\ requests = 2 /\ cpc = "gather"
    /\ \E i, j \in ToolMessagesOf(1, 1) :
          /\ chat_history[i].content = "malformed"
          /\ chat_history[j].content = "result"

\* C13: when the loop sends the next request, the history holds exactly one
\* tool message for every tool call of every completion of the response of
\* the round that ended.
C13_OneToolMessagePerRequest ==
    [][(requests' > requests /\ requests >= 1)
          => \A c \in 1..Len(completions) : \A k \in 1..completions[c] :
                Cardinality(ToolMessagesFor(requests, c, k)) = 1]_vars

C13_Witness ==
    /\ requests = 2 /\ cpc = "gather"
    /\ \A k \in 1..3 : Cardinality(ToolMessagesFor(1, 1, k)) = 1
    /\ \E i \in ToolMessagesOf(1, 1) : chat_history[i].content = "malformed"

\* C14: the chat history is only appended to: every step leaves the history
\* it found as a prefix of the history it leaves.
C14_HistoryAppendOnly ==
    [][/\ Len(chat_history) <= Len(chat_history')
       /\ SubSeq(chat_history', 1, Len(chat_history)) = chat_history]_vars

C14_Witness ==
    /\ requests = 2
    /\ ToolMessagesOf(1, 1) # {} /\ ToolMessagesOf(2, 1) # {}
    /\ \E i \in ToolMessagesOf(1, 1) : \E j \in ToolMessagesOf(2, 1) : i < j

\* C15 (as claimed): in complete_chat_stream, when the tool calls of a round
\* that ended with the tool-call finish reason have all been resolved and the
\* attempt budget is not used up, another request is sent.
C15_StreamRoundGoesOn ==
    [][(/\ api = "complete_chat_stream" /\ cpc = "gather"
        /\ cpc' \notin {"gather", "raised"} /\ LoopContinues(requests))
          => cpc' = "send"]_vars

\* ---- claims about the argument tables of the tool calls --------------------

\* C27: every tool message of the history stands after the assistant message
\* of its round and completion, and no other assistant message stands between
\* the two: each assistant message is followed by its own tool results
\* before the next assistant message is appended.
C27_AssistantBeforeToolResults ==
    \A i \in 1..Len(chat_history) :
        chat_history[i].role = "tool"
            => \E j \in 1..(i - 1) :
                  /\ chat_history[j] =
                        AssistantMessage(chat_history[i].round, chat_history[i].completion)
                  /\ \A m \in (j + 1)..(i - 1) : chat_history[m].role = "tool"

C27_Witness ==
    /\ api = "complete_chat" /\ cpc = "returned" /\ Len(chat_history) >= 4
    /\ chat_history[1] = AssistantMessage(1, 1)
    /\ chat_history[2].role = "tool" /\ chat_history[2].completion = 1
    /\ chat_history[3] = AssistantMessage(1, 2)
    /\ chat_history[4].role = "tool" /\ chat_history[4].completion = 2

\* C28: complete_chat starts tool calls only for a response in which every
\* completion has tool calls; when a completion of the response has none, the
\* completions are returned, no tool call is started and the history stays
\* as it is, also when other completions of the response have tool calls.
C28_AnyCompletionWithoutToolCallsReturns ==
    /\ [][(api = "complete_chat" /\ cpc = "send" /\ requests' # requests
            /\ \E c \in 1..Len(completions') : completions'[c] = 0)
          => (/\ cpc' = "returned"
              /\ chat_ret' = "completions"
              /\ chat_history' = chat_history
              /\ tasks' = tasks)]_vars
    /\ [][(api = "complete_chat" /\ cpc = "send" /\ cpc' = "gather")
          => \A c \in 1..Len(completions') : completions'[c] > 0]_vars
    /\ [](api = "complete_chat" /\ cpc = "returned" /\ chat_ret = "completions"
          => \A k \in DOMAIN tasks : tasks[k].state = "done")

C28_Witness ==
    /\ api = "complete_chat" /\ auto_invoke /\ cpc = "returned"
    /\ chat_ret = "completions" /\ requests = 2
    /\ completions = <<2, 0>>
    /\ ToolMessagesOf(1, 1) # {} /\ ToolMessagesOf(2, 1) = {}

\* C30 (as claimed): once complete_chat or complete_chat_stream has returned
\* or raised, the chat history is not changed any more and no tool call
\* invokes its function or appends a tool message.
C30_QuietAfterEnd ==
    [][(cpc = "returned" \/ cpc = "raised")
          => (/\ chat_history' = chat_history
              /\ \A k \in DOMAIN tasks :
                    /\ tasks'[k].invoked = tasks[k].invoked
                    /\ tasks'[k].appended = tasks[k].appended)]_vars

\* C11: every tool call of a round works on its own copy of the argument
\* table: the table of a call that has parsed its payload holds the caller's
\* entries overwritten by its own parsed arguments and nothing of any other
\* call, and the caller's table stays as the caller passed it.
C11_BranchesHaveOwnCopy ==
    apc = "gather" =>
        /\ tables[0] = caller_arguments
        /\ \A k \in 1..args_done :
              tables[args_cloned[k]] = update(caller_arguments, parsed_args[k])

C11_Witness ==
    /\ apc = "gather" /\ args_done >= 2
    /\ caller_arguments["x"] = 0
    /\ parsed_args[1]["x"] = 1
    /\ parsed_args[2]["x"] = -1 /\ parsed_args[2]["y"] = 2
    /\ tables[args_cloned[2]]["x"] = 0

\* ---- claims about TemplateTokenizer.tokenize ------------------------------

\* the spans of the blocks, in output order, joined
RECURSIVE JoinSpans(_, _)
JoinSpans(t, bs) ==
    IF bs = <<>> THEN <<>>
    ELSE Slice(t, Head(bs).start, Head(bs).stop) \o JoinSpans(t, Tail(bs))

SpansCover(t, bs) ==
    /\ Len(bs) >= 1
    /\ bs[1].start = 0
    /\ bs[Len(bs)].stop = Len(t)
    /\ \A i \in 1..Len(bs) : bs[i].start <= bs[i].stop
    /\ \A i \in 1..(Len(bs) - 1) : bs[i + 1].start = bs[i].stop
    /\ JoinSpans(t, bs) = t

\* C7: tokenize raises a syntax error, or the spans of the template its blocks
\* were cut from follow one another without gap or overlap from index 0 to the
\* length of the template, so that joined they give the template.
C7_SpansCoverInput ==
    tpc = "done" => (result.error # "none" \/ SpansCover(text, result.blocks))

C7_Witness ==
    /\ tpc = "done" /\ result.error = "none"
    /\ \E i \in 2..(Len(result.blocks) - 1) :
          /\ result.blocks[i - 1].type = "TEXT"
          /\ result.blocks[i].type = "CODE"
          /\ result.blocks[i + 1].type = "TEXT"

\* The reading of the template language the claims below are stated in, for a
\* template t with characters t[1..Len(t)] at the positions 0..Len(t)-1.

\* the character at position i ("" past the end)
CharAt(t, i) == IF i >= 0 /\ i < Len(t) THEN t[i + 1] ELSE ""

\* Read from position i on, q being the quote of the literal position i is
\* in ("None": in none): the position of the first "}}" outside every
\* literal, -1 when there is none, -2 when the template ends inside a literal.
RECURSIVE FirstClose(_, _, _)
FirstClose(t, i, q) ==
    IF i >= Len(t) THEN (IF q = "None" THEN -1 ELSE -2)
    ELSE IF q = "None"
    THEN IF CharAt(t, i) \in {DBL_QUOTE, SGL_QUOTE}
         THEN FirstClose(t, i + 1, CharAt(t, i))
         ELSE IF CharAt(t, i) = BLOCK_ENDER /\ CharAt(t, i + 1) = BLOCK_ENDER THEN i
         ELSE FirstClose(t, i + 1, "None")
    ELSE IF CharAt(t, i) = ESCAPE_CHAR
              /\ CharAt(t, i + 1) \in {DBL_QUOTE, SGL_QUOTE, ESCAPE_CHAR}
         THEN FirstClose(t, i + 2, q)
    ELSE IF CharAt(t, i) = q THEN FirstClose(t, i + 1, "None")
    ELSE FirstClose(t, i + 1, q)

\* Read from position i on (in_block: after a "{{" that no "}}" has closed;
\* q as above): is position j outside every literal
RECURSIVE OutsideLiteral(_, _, _, _, _)
OutsideLiteral(t, i, in_block, q, j) ==
    IF i >= j THEN q = "None"
    ELSE IF q # "None"
    THEN IF CharAt(t, i) = ESCAPE_CHAR
            /\ CharAt(t, i + 1) \in {DBL_QUOTE, SGL_QUOTE, ESCAPE_CHAR}
         THEN OutsideLiteral(t, i + 2, TRUE, q, j)
         ELSE IF CharAt(t, i) = q THEN OutsideLiteral(t, i + 1, TRUE, "None", j)
         ELSE OutsideLiteral(t, i + 1, TRUE, q, j)
    ELSE IF CharAt(t, i) = BLOCK_STARTER /\ CharAt(t, i + 1) = BLOCK_STARTER
    THEN OutsideLiteral(t, i + 1, TRUE, "None", j)
    ELSE IF ~in_block THEN OutsideLiteral(t, i + 1, FALSE, "None", j)
    ELSE IF CharAt(t, i) \in {DBL_QUOTE, SGL_QUOTE}
    THEN OutsideLiteral(t, i + 1, TRUE, CharAt(t, i), j)
    ELSE IF CharAt(t, i) = BLOCK_ENDER /\ CharAt(t, i + 1) = BLOCK_ENDER
    THEN OutsideLiteral(t, i + 2, FALSE, "None", j)
    ELSE OutsideLiteral(t, i + 1, TRUE, "None", j)

\* the positions where a block opens: a "{{" outside every literal
Openers(t) ==
    {i \in 0..(Len(t) - 2) :
        /\ CharAt(t, i) = BLOCK_STARTER /\ CharAt(t, i + 1) = BLOCK_STARTER
        /\ OutsideLiteral(t, 0, FALSE, "None", i)}

\* the spans [start, stop) of the delimiter pairs: from the last "{{" before
\* it to the first "}}" outside every literal
DelimitedSpans(t) ==
    LET openers == Openers(t)
        closed == {i \in openers :
                     /\ FirstClose(t, i + 2, "None") >= 0
                     /\ \A k \in openers :
                           ~(i < k /\ k < FirstClose(t, i + 2, "None"))}
    IN {<<i, FirstClose(t, i + 2, "None") + 2>> : i \in closed}

\* the trimmed content of the delimiter pair of a span
ContentOf(t, sp) == Strip(SubSeq(t, sp[1] + 3, sp[2] - 2))

\* C17: a block that is no text block ends with the first "}}" after its
\* "{{" that lies outside every literal (literals being closed by the first
\* unescaped quote of the kind that opened them); and when the content of
\* every delimiter pair read this way can be parsed, tokenize raises nothing
\* and gives a block for each of these pairs.
C17_BlockEndsOutsideLiterals ==
    tpc = "done" =>
        LET spans == DelimitedSpans(text) IN
        /\ \A n \in 1..Len(result.blocks) :
              result.blocks[n].type \in {"VALUE", "VARIABLE", "CODE"}
                 => <<result.blocks[n].start, result.blocks[n].stop>> \in spans
        /\ (\A sp \in spans : DelimitedBlock(text, sp[1], sp[2]).error = "none")
              => /\ result.error = "none"
                 /\ \A sp \in spans :
                       \E n \in 1..Len(result.blocks) :
                          /\ result.blocks[n].start = sp[1]
                          /\ result.blocks[n].stop = sp[2]

C17_Witness ==
    /\ tpc = "done" /\ result.error = "none"
    /\ \E n \in 1..Len(result.blocks) :
          LET b == result.blocks[n] IN
          /\ b.type = "VALUE"
          /\ \E k \in (b.start + 2)..(b.stop - 4) :
                /\ CharAt(text, k) = ESCAPE_CHAR /\ CharAt(text, k + 1) = SGL_QUOTE
          /\ \E k \in (b.start + 2)..(b.stop - 4) :
                /\ CharAt(text, k) = BLOCK_ENDER /\ CharAt(text, k + 1) = BLOCK_ENDER

\* C18 (as claimed): a template with a block that is opened and holds a
\* literal that is never closed makes tokenize raise.
C18_UnterminatedLiteralFails ==
    (tpc = "done" /\ \E i \in Openers(text) : FirstClose(text, i + 2, "None") = -2)
        => result.error # "none"

EmptyPairs(t) ==
    {sp \in DelimitedSpans(t) :
        \A k \in (sp[1] + 2)..(sp[2] - 3) : CharAt(t, k) = SPACE}

\* C20: a delimiter pair with empty or whitespace-only content raises no
\* error and, when tokenize returns, is one text block that holds the whole
\* span with its delimiters, wherever the pair stands in the template.
C20_EmptyPairIsText ==
    tpc = "done" =>
        \A sp \in EmptyPairs(text) :
            /\ DelimitedBlock(text, sp[1], sp[2]).error = "none"
            /\ result.error = "none"
                  => \E n \in 1..Len(result.blocks) :
                        result.blocks[n] =
                            Block("TEXT", sp[1], sp[2], Slice(text, sp[1], sp[2]))

C20_Witness ==
    /\ tpc = "done" /\ result.error = "none"
    /\ \E sp \in EmptyPairs(text) : sp[1] > 0 /\ sp[2] - sp[1] > 4
    /\ \E n \in 1..Len(result.blocks) : result.blocks[n].type = "CODE"

\* the blocks of the result cut from the span sp
BlocksOf(sp) ==
    {n \in 1..Len(result.blocks) :
        result.blocks[n].start < sp[2] /\ result.blocks[n].stop > sp[1]}

\* the kind of the first token of a content: by its first character
FirstTokenKind(c) ==
    IF Head(c) \in {DBL_QUOTE, SGL_QUOTE} THEN "VALUE"
    ELSE IF Head(c) = VAR_PREFIX THEN "VARIABLE"
    ELSE "FUNCTION_ID"

IsIdentifier(c) == c # <<>> /\ \A k \in 1..Len(c) : c[k] \in NameChars

\* a quoted literal: opened and closed by the same quote character
IsQuotedLiteral(c) ==
    /\ Len(c) >= 2
    /\ c[1] \in {DBL_QUOTE, SGL_QUOTE}
    /\ c[Len(c)] = c[1]

\* identifier "=" ("$" identifier | quoted literal)
IsNamedArg(c) ==
    \E n \in 1..(Len(c) - 2) :
        /\ IsIdentifier(SubSeq(c, 1, n))
        /\ c[n + 1] = "="
        /\ \/ c[n + 2] = "$" /\ IsIdentifier(SubSeq(c, n + 3, Len(c)))
           \/ IsQuotedLiteral(SubSeq(c, n + 2, Len(c)))

\* C23 (as claimed): NamedArgBlock accepts a content exactly when it has the
\* form identifier "=" ("$" identifier | quoted literal), and raises
\* NamedArgBlockSyntaxError for every other content.
C23_AcceptsExactlyNamedArgs ==
    npc = "done" =>
        /\ IsNamedArg(arg_content) => named_arg = "none"
        /\ ~IsNamedArg(arg_content) => named_arg = "NamedArgBlockSyntaxError"

\* ---- claims about KernelPromptTemplate.render ---------------------------------

\* the name of block i may be substituted without encoding
AllowedUnsafe(i) ==
    \/ allow_dangerously_set_content
    \/ input_variables[template_blocks[i].content] = "allow"

\* C21 (as claimed): render substitutes a string argument encoded, and
\* verbatim only when the template or the input variable of that name
\* allows dangerous content.
C21_EncodedByDefault ==
    rpc = "done" =>
        \A i \in 1..Len(template_blocks) :
            (/\ template_blocks[i].type = "VARIABLE"
             /\ render_arguments[template_blocks[i].content].present
             /\ render_arguments[template_blocks[i].content].is_str)
                => rendered_blocks[i] =
                      IF AllowedUnsafe(i)
                      THEN render_arguments[template_blocks[i].content].text
                      ELSE quote(render_arguments[template_blocks[i].content].text)

\* ---- claims about Kernel.add_functions / KernelPlugin --------------------------

\* C22 (as claimed): add_function, add_functions, set and update have no way
\* to request an overwrite, so registering a function under a name that is
\* taken in the plugin fails and the function registered before stays.
C22_NoSilentOverwrite ==
    [][\A plugin_name \in PluginNames, key \in FunctionNames :
          (plugins[plugin_name].present /\ plugins[plugin_name].functions[key] # 0)
             => plugins'[plugin_name].functions[key]
                   = plugins[plugin_name].functions[key]]_vars

\* ---- claims about the merge of content fragments --------------------------------

\* C25 (as claimed): for all fragments a, b, c that arrive in this order,
\* (a + b) + c and a + (b + c) are equal in every field (text, metadata,
\* model id, encoding and inner content), and the text of the sum is the
\* texts of a, b, c one after the other.
C25_MergeIsAssociative ==
    mpc = "done" =>
        /\ left_sum = right_sum
        /\ addends[1].kind = "text"
              => left_sum.text
                    = addends[1].text \o addends[2].text \o addends[3].text

====
